---------------------------- MODULE Spec2Model ----------------------------
(***************************************************************************)
(* session-slides: the title extractor (scripts/titles.py) and the content *)
(* truncator (scripts/truncation.py) as state machines over Python strings.*)
(*                                                                         *)
(* A Python str is a TLA+ string; character i (0-based, as in Python) of s *)
(* is SubSeq(s, i+1, i+1).  A Python list is a TLA+ sequence.  Positions   *)
(* and slice bounds are Python's 0-based offsets throughout.               *)
(***************************************************************************)
EXTENDS Integers, Sequences, FiniteSets, TLC

(***************************************************************************)
(* Python str primitives.                                                  *)
(***************************************************************************)
\* F(v): the body F of a block in which a local variable holds the value v
With(v, F(_)) == F(v)

Min(a, b) == IF a <= b THEN a ELSE b
Max(a, b) == IF a >= b THEN a ELSE b

\* s[i] for 0 <= i < len(s)
At(s, i) == SubSeq(s, i + 1, i + 1)

\* a slice bound as Python clamps it: negative bounds count from the end
Bound(s, i) == IF i < 0 THEN Max(Len(s) + i, 0) ELSE Min(i, Len(s))

\* s[a:b]
Slice(s, a, b) ==
    LET lo == Bound(s, a)
        hi == Bound(s, b)
    IN  IF lo >= hi THEN SubSeq(s, 1, 0) ELSE SubSeq(s, lo + 1, hi)

\* s[:b] and s[a:]
Upto(s, b) == Slice(s, 0, b)
From(s, a) == Slice(s, a, Len(s))

\* the characters str.strip(), str.split() and the regex class \s treat as space
Whitespace == {" ", "\t", "\n", "\r", "\f"}

\* the least and the greatest element of a non-empty set of integers
Least(S) == CHOOSE m \in S : \A x \in S : m <= x
Greatest(S) == CHOOSE m \in S : \A x \in S : x <= m

\* the k-th smallest element of a set of integers, k in 1..Cardinality(S)
Nth(S, k) == CHOOSE m \in S : Cardinality({x \in S : x < m}) = k - 1

\* s.rstrip(cs): s up to its last character outside cs
rstripOf(s, cs) ==
    LET n == CHOOSE i \in 0..Len(s) :
                 /\ i = 0 \/ At(s, i - 1) \notin cs
                 /\ \A j \in i..(Len(s) - 1) : At(s, j) \in cs
    IN  SubSeq(s, 1, n)

\* s.lstrip(cs): s from its first character outside cs
lstripOf(s, cs) ==
    LET n == CHOOSE i \in 0..Len(s) :
                 /\ i = Len(s) \/ At(s, i) \notin cs
                 /\ \A j \in 0..(i - 1) : At(s, j) \in cs
    IN  SubSeq(s, n + 1, Len(s))

rstrip(s) == rstripOf(s, Whitespace)
lstrip(s) == lstripOf(s, Whitespace)
strip(s) == lstrip(rstrip(s))
stripOf(s, cs) == lstripOf(rstripOf(s, cs), cs)

\* s.find(c, i) for a one-character c: the least offset >= i, or -1
findFrom(s, c, i) ==
    LET hits == {j \in i..(Len(s) - 1) : At(s, j) = c}
    IN  IF hits = {} THEN -1 ELSE Least(hits)

\* s.rfind(c, 0, end) for a one-character c: the greatest offset < end, or -1
rfindBelow(s, c, end) ==
    LET hits == {j \in 0..(Min(end, Len(s)) - 1) : At(s, j) = c}
    IN  IF hits = {} THEN -1 ELSE Greatest(hits)

rfind(s, c, end) == rfindBelow(s, c, Bound(s, end))

\* s.split(c) for a one-character separator c
splitOn(s, c) ==
    LET cuts == {i \in 0..(Len(s) - 1) : At(s, i) = c}
        n == Cardinality(cuts)
        edge(k) == IF k = 0 THEN -1 ELSE IF k = n + 1 THEN Len(s) ELSE Nth(cuts, k)
        pieces == [k \in 1..(n + 1) |-> SubSeq(s, edge(k - 1) + 2, edge(k))]
    IN  SubSeq(pieces, 1, n + 1)

\* c.join(xs)
RECURSIVE join(_, _)
join(xs, c) ==
    LET half == Len(xs) \div 2
    IN  IF Len(xs) = 0 THEN ""
        ELSE IF Len(xs) = 1 THEN xs[1]
        ELSE join(SubSeq(xs, 1, half), c) \o c \o join(SubSeq(xs, half + 1, Len(xs)), c)

\* s.startswith(p), s.endswith(p), p in s
startswith(s, p) == Len(p) <= Len(s) /\ SubSeq(s, 1, Len(p)) = p
endswith(s, p) == Len(p) <= Len(s) /\ SubSeq(s, Len(s) - Len(p) + 1, Len(s)) = p
contains(s, p) == \E i \in 0..(Len(s) - Len(p)) : SubSeq(s, i + 1, i + Len(p)) = p

UpperLetters == <<"A","B","C","D","E","F","G","H","I","J","K","L","M",
                  "N","O","P","Q","R","S","T","U","V","W","X","Y","Z">>
LowerLetters == <<"a","b","c","d","e","f","g","h","i","j","k","l","m",
                  "n","o","p","q","r","s","t","u","v","w","x","y","z">>
Digits == {"0","1","2","3","4","5","6","7","8","9"}
Uppers == {UpperLetters[i] : i \in 1..26}
Lowers == {LowerLetters[i] : i \in 1..26}
\* the regex class \w
WordChars == Uppers \cup Lowers \cup Digits \cup {"_"}

lowerChar(c) ==
    IF c \in Uppers THEN LowerLetters[CHOOSE i \in 1..26 : UpperLetters[i] = c] ELSE c
upperChar(c) ==
    IF c \in Lowers THEN UpperLetters[CHOOSE i \in 1..26 : LowerLetters[i] = c] ELSE c

\* s.lower(), s.upper()
RECURSIVE lower(_)
lower(s) ==
    LET half == Len(s) \div 2
    IN  IF Len(s) = 0 THEN s
        ELSE IF Len(s) = 1 THEN lowerChar(s)
        ELSE lower(SubSeq(s, 1, half)) \o lower(SubSeq(s, half + 1, Len(s)))
RECURSIVE upper(_)
upper(s) ==
    LET half == Len(s) \div 2
    IN  IF Len(s) = 0 THEN s
        ELSE IF Len(s) = 1 THEN upperChar(s)
        ELSE upper(SubSeq(s, 1, half)) \o upper(SubSeq(s, half + 1, Len(s)))

(***************************************************************************)
(* Python's re module.  A pattern is a tree of nodes; Run is a backtracking*)
(* matcher that tries alternatives in Python's priority order (leftmost    *)
(* alternative first, greedy repeats longest first, lazy repeats shortest  *)
(* first), so its first success is the match re finds.  Under IGNORECASE   *)
(* the subject is compared lower-cased against a lower-cased pattern.      *)
(***************************************************************************)
Lit(s) == [t |-> "lit", s |-> s]                 \* literal text
Cls(cs) == [t |-> "cls", cs |-> cs]              \* [...]: one character of cs
NotCls(cs) == [t |-> "ncls", cs |-> cs]          \* [^...]
Cat(xs) == [t |-> "seq", xs |-> xs]              \* concatenation
Alt(xs) == [t |-> "alt", xs |-> xs]              \* x1|x2|...
Rep(x, lo, hi, greedy) == [t |-> "rep", x |-> x, lo |-> lo, hi |-> hi, greedy |-> greedy]
Grp(i, x) == [t |-> "grp", i |-> i, x |-> x]     \* capture group i
Bol == [t |-> "bol"]                             \* ^
Eol == [t |-> "eol"]                             \* $
Behind(cs) == [t |-> "behind", cs |-> cs]        \* (?<=[...])
Unbounded == -1
Star(x) == Rep(x, 0, Unbounded, TRUE)            \* x*
Plus(x) == Rep(x, 1, Unbounded, TRUE)            \* x+
Opt(x) == Rep(x, 0, 1, TRUE)                     \* x?
LazyStar(x) == Rep(x, 0, Unbounded, FALSE)       \* x*?
LazyPlus(x) == Rep(x, 1, Unbounded, FALSE)       \* x+?
Times(x, n) == Rep(x, n, n, TRUE)                \* x{n}
Space == Cls(Whitespace)                         \* \s
Word == Cls(WordChars)                           \* \w
Digit == Cls(Digits)                             \* \d

\* The subject of a match: the string, and the string as literal text is
\* compared with it.  A pattern compiled with re.IGNORECASE is written with its
\* literals in lower case and matched against SubjectI.
Subject(s) == [s |-> s, m |-> s]
SubjectI(s) == [s |-> s, m |-> lower(s)]

NoMatch == [ok |-> FALSE]
NoGroups == << <<-1, -1>>, <<-1, -1>> >>

\* The outcomes of the tries at one choice point are pairs <<rank, outcome>>:
\* those that matched, the outcome of the lowest and highest rank, and the one
\* a greedy or a lazy choice settles on.
Matching(tries) == {o \in tries : o[2].ok}
First(hits) == (CHOOSE o \in hits : \A h \in hits : o[1] <= h[1])[2]
Last(hits) == (CHOOSE o \in hits : \A h \in hits : o[1] >= h[1])[2]
Preferred(hits, greedy) ==
    IF hits = {} THEN NoMatch ELSE IF greedy THEN Last(hits) ELSE First(hits)

RECURSIVE Run(_, _, _, _)
Run(subj, nodes, pos, caps) ==
    IF Len(nodes) = 0 THEN [ok |-> TRUE, end |-> pos, caps |-> caps]
    ELSE
    LET n == Head(nodes)
        rest == Tail(nodes)
        len == Len(subj.s)
    IN  CASE n.t = "lit" ->
                IF pos + Len(n.s) <= len /\ SubSeq(subj.m, pos + 1, pos + Len(n.s)) = n.s
                THEN Run(subj, rest, pos + Len(n.s), caps)
                ELSE NoMatch
          [] n.t = "cls" ->
                IF pos < len /\ At(subj.s, pos) \in n.cs
                THEN Run(subj, rest, pos + 1, caps)
                ELSE NoMatch
          [] n.t = "ncls" ->
                IF pos < len /\ At(subj.s, pos) \notin n.cs
                THEN Run(subj, rest, pos + 1, caps)
                ELSE NoMatch
          [] n.t = "seq" -> Run(subj, n.xs \o rest, pos, caps)
          [] n.t = "alt" ->
                Preferred(Matching({<<i, Run(subj, <<n.xs[i]>> \o rest, pos, caps)>> :
                                      i \in 1..Len(n.xs)}), FALSE)
          [] n.t = "rep" /\ n.x.t \in {"cls", "ncls"} ->
                \* a repeated character class: the run of matching characters,
                \* then the counts in priority order
                LET fits(i) == (At(subj.s, i) \in n.x.cs) = (n.x.t = "cls")
                    stoppers == {i \in pos..(len - 1) : ~fits(i)} \cup {len}
                    run == (IF pos > len THEN pos ELSE Least(stoppers)) - pos
                    most == IF n.hi = Unbounded THEN run ELSE Min(run, n.hi)
                IN  Preferred(Matching({<<j, Run(subj, rest, pos + j, caps)>> : j \in n.lo..most}),
                              n.greedy)
          [] n.t = "rep" /\ n.x.t \notin {"cls", "ncls"} ->
                LET more == IF n.hi = 0 THEN NoMatch
                            ELSE Run(subj,
                                     <<n.x, Rep(n.x, Max(n.lo - 1, 0),
                                                IF n.hi = Unbounded THEN Unbounded ELSE n.hi - 1,
                                                n.greedy)>> \o rest,
                                     pos, caps)
                    stop == IF n.lo > 0 THEN NoMatch ELSE Run(subj, rest, pos, caps)
                IN  IF n.greedy
                    THEN (IF more.ok THEN more ELSE stop)
                    ELSE (IF stop.ok THEN stop ELSE more)
          [] n.t = "grp" ->
                Run(subj, <<n.x, [t |-> "end", i |-> n.i, from |-> pos]>> \o rest, pos, caps)
          [] n.t = "end" ->
                Run(subj, rest, pos, [caps EXCEPT ![n.i] = <<n.from, pos>>])
          [] n.t = "bol" ->
                IF pos = 0 THEN Run(subj, rest, pos, caps) ELSE NoMatch
          [] n.t = "eol" ->
                IF pos = len \/ (pos = len - 1 /\ At(subj.s, pos) = "\n")
                THEN Run(subj, rest, pos, caps)
                ELSE NoMatch
          [] n.t = "behind" ->
                IF pos > 0 /\ At(subj.s, pos - 1) \in n.cs
                THEN Run(subj, rest, pos, caps)
                ELSE NoMatch

\* pattern.match(s): a match at offset 0
reMatch(pat, subj) == Run(subj, <<pat>>, 0, NoGroups)

\* pattern.search(s, from): the leftmost match at or after offset from
reSearchFrom(pat, subj, from) ==
    With(Matching({<<i, Run(subj, <<pat>>, i, NoGroups)>> : i \in from..Len(subj.s)}),
         LAMBDA hits :
            IF hits = {} THEN NoMatch
            ELSE With(First(hits), LAMBDA r :
                    [ok |-> TRUE, start |-> Least({h[1] : h \in hits}),
                     end |-> r.end, caps |-> r.caps]))

reSearch(pat, subj) == reSearchFrom(pat, subj, 0)

\* match.group(i)
group(subj, m, i) == Slice(subj.s, m.caps[i][1], m.caps[i][2])

\* list(pattern.finditer(s)): the non-overlapping matches, left to right
RECURSIVE finditerFrom(_, _, _)
finditerFrom(pat, subj, from) ==
    With(reSearchFrom(pat, subj, from), LAMBDA m :
        IF ~m.ok THEN <<>>
        ELSE <<m>> \o finditerFrom(pat, subj, IF m.end > m.start THEN m.end ELSE m.end + 1))

finditer(pat, subj) == finditerFrom(pat, subj, 0)

\* re.sub(pattern, "", s): s without the matches
RECURSIVE cutMatches(_, _, _)
cutMatches(s, ms, from) ==
    IF Len(ms) = 0 THEN From(s, from)
    ELSE Slice(s, from, Head(ms).start) \o cutMatches(s, Tail(ms), Head(ms).end)

reSubEmpty(pat, subj) == cutMatches(subj.s, finditer(pat, subj), 0)

\* re.split(pattern, s) for a pattern without groups
RECURSIVE piecesBetween(_, _, _)
piecesBetween(s, ms, from) ==
    IF Len(ms) = 0 THEN <<From(s, from)>>
    ELSE <<Slice(s, from, Head(ms).start)>> \o piecesBetween(s, Tail(ms), Head(ms).end)

reSplit(pat, subj) == piecesBetween(subj.s, finditer(pat, subj), 0)

(***************************************************************************)
(* scripts/truncation.py                                                   *)
(***************************************************************************)
\* TruncationConfig(): the default thresholds
DefaultConfig ==
    [prompt_max_chars |-> 300,
     prose_max_sentences |-> 3,
     code_short_threshold |-> 15,
     code_long_threshold |-> 40,
     code_head_lines |-> 5,
     code_tail_lines |-> 3,
     terminal_max_lines |-> 3,
     terminal_include_errors |-> TRUE,
     list_max_items |-> 5]

\* TruncationConfig.comment_styles (the default mapping)
comment_styles ==
    [python |-> "#", py |-> "#", ruby |-> "#", rb |-> "#", bash |-> "#",
     sh |-> "#", shell |-> "#", yaml |-> "#", yml |-> "#", javascript |-> "//",
     js |-> "//", typescript |-> "//", ts |-> "//", tsx |-> "//", jsx |-> "//",
     java |-> "//", c |-> "//", cpp |-> "//", csharp |-> "//", cs |-> "//",
     go |-> "//", rust |-> "//", rs |-> "//", swift |-> "//", kotlin |-> "//",
     scala |-> "//", php |-> "//", html |-> "<!--", xml |-> "<!--", svg |-> "<!--",
     css |-> "/*", scss |-> "//", sass |-> "//", sql |-> "--", lua |-> "--",
     haskell |-> "--", hs |-> "--"]
    @@ ("c++" :> "//")

\* dict.get(key, default)
getOr(d, key, default) == IF key \in DOMAIN d THEN d[key] ELSE default

\* get_comment_style(language, config) -> (prefix, suffix); language None is ""
get_comment_style(lang, cfg) ==
    IF lang = "" THEN <<"//", "">>
    ELSE LET prefix == getOr(comment_styles, strip(lower(lang)), "//")
         IN  IF prefix = "<!--" THEN <<"<!--", " -->">>
             ELSE IF prefix = "/*" THEN <<"/*", " */">>
             ELSE <<prefix, "">>

SentenceEnd == {".", "!", "?"}

\* re.compile(r'[.!?](?:\s|$)')
sentence_pattern == Cat(<<Cls(SentenceEnd), Alt(<<Space, Eol>>)>>)

\* how far back find_sentence_boundary looks for a comma, semicolon or colon
CommaWindow == 50

\* the for loop of find_sentence_boundary, from pos down to just above stop
clauseBreak(s, pos, stop) ==
    LET hits == {i \in (stop + 1)..pos :
                    At(s, i) \in {",", ";", ":"} /\ i + 1 < Len(s) /\ At(s, i + 1) = " "}
    IN  IF hits = {} THEN -1 ELSE Greatest(hits) + 1

find_sentence_boundary(s, max_pos) ==
    IF max_pos >= Len(s) THEN Len(s)
    ELSE
    With(finditer(sentence_pattern, Subject(Upto(s, max_pos))), LAMBDA matches :
    With(clauseBreak(s, max_pos - 1, Max(0, max_pos - CommaWindow)), LAMBDA clause :
    With(rfind(s, " ", max_pos), LAMBDA space_pos :
        IF Len(matches) > 0 THEN matches[Len(matches)].end
        ELSE IF clause >= 0 THEN clause
        ELSE IF space_pos > max_pos \div 2 THEN space_pos
        ELSE max_pos)))

\* an ending that adds nothing
noEllipsis(truncated) == ""

\* the ending truncate_user_prompt and truncate_prose append
ellipsisFor(truncated) ==
    IF Len(truncated) > 0 /\ At(truncated, Len(truncated) - 1) \in SentenceEnd
    THEN ".." ELSE "..."

\* truncate_user_prompt from the comparison with the limit on
cutPrompt(stripped, cfg) ==
    IF Len(stripped) <= cfg.prompt_max_chars THEN stripped
    ELSE
    With(find_sentence_boundary(stripped, cfg.prompt_max_chars), LAMBDA found :
    With(IF found > cfg.prompt_max_chars THEN cfg.prompt_max_chars ELSE found, LAMBDA break_pos :
    With(rstrip(Upto(stripped, break_pos)), LAMBDA truncated :
        IF break_pos < Len(stripped) THEN truncated \o ellipsisFor(truncated)
        ELSE truncated)))

\* truncate_user_prompt without prompt.strip()
unstrippedPrompt(prompt, cfg) == cutPrompt(prompt, cfg)

truncate_user_prompt(prompt, cfg) == cutPrompt(strip(prompt), cfg)

\* re.compile(r'([.!?]+)(\s+|$)')
split_pattern == Cat(<<Grp(1, Plus(Cls(SentenceEnd))), Grp(2, Alt(<<Plus(Space), Eol>>))>>)

\* the loop of split_sentences over the matches
RECURSIVE sentencesOf(_, _, _)
sentencesOf(s, ms, last_end) ==
    IF Len(ms) = 0
    THEN LET remaining == strip(From(s, last_end))
         IN  IF remaining # "" THEN <<remaining>> ELSE <<>>
    ELSE LET sentence == strip(Slice(s, last_end, Head(ms).end))
         IN  (IF sentence # "" THEN <<sentence>> ELSE <<>>)
             \o sentencesOf(s, Tail(ms), Head(ms).end)

split_sentences(s) == sentencesOf(s, finditer(split_pattern, Subject(s)), 0)

\* truncate_prose that adds the ellipsis whether or not it dropped a sentence
alwaysEllipsis(text0, cfg) ==
    With(strip(text0), LAMBDA s :
    With(join(Upto(split_sentences(s), cfg.prose_max_sentences), " "), LAMBDA truncated :
        truncated \o ellipsisFor(truncated)))

truncate_prose(text0, cfg) ==
    With(strip(text0), LAMBDA s :
    With(split_sentences(s), LAMBDA sentences :
        IF Len(sentences) <= cfg.prose_max_sentences THEN s
        ELSE With(join(Upto(sentences, cfg.prose_max_sentences), " "), LAMBDA truncated :
                truncated \o ellipsisFor(truncated))))

\* the number of leading lines the summary of a long code block keeps
SummaryHeadLines == 3

\* "Short code" read as strictly under the threshold
strictlyShortCode(line_count, cfg) == line_count < cfg.code_short_threshold

\* "Short code: show all"
isShortCode(line_count, cfg) == line_count <= cfg.code_short_threshold

\* "Very long code" read as more than one line over the threshold
wellOverLongCode(line_count, cfg) == line_count > cfg.code_long_threshold + 1

\* "Very long code: summary only"
isLongCode(line_count, cfg) == line_count > cfg.code_long_threshold

truncate_code_block(code, lang, cfg) ==
    LET lines == splitOn(rstrip(code), "\n")
        line_count == Len(lines)
        style == get_comment_style(lang, cfg)
        comment_prefix == style[1]
        comment_suffix == style[2]
        summary == comment_prefix \o " [" \o ToString(line_count) \o " lines of "
                   \o (IF lang # "" THEN lang ELSE "code")
                   \o " - truncated for brevity]" \o comment_suffix
        head_lines == Upto(lines, cfg.code_head_lines)
        tail_lines == From(lines, 0 - cfg.code_tail_lines)
        omitted == line_count - cfg.code_head_lines - cfg.code_tail_lines
        omit_comment == comment_prefix \o " ... (" \o ToString(omitted)
                        \o " lines omitted)" \o comment_suffix
    IN  IF isShortCode(line_count, cfg) THEN rstrip(code)
        ELSE IF isLongCode(line_count, cfg)
        THEN join(Upto(lines, SummaryHeadLines), "\n") \o "\n\n" \o summary
        ELSE IF omitted <= 0 THEN rstrip(code)
        ELSE join(head_lines, "\n") \o "\n" \o omit_comment \o "\n" \o join(tail_lines, "\n")

\* is_error_line: the indicators, matched as case-sensitive substrings
error_indicators ==
    <<"error", "Error", "ERROR", "exception", "Exception", "EXCEPTION",
      "failed", "Failed", "FAILED", "fatal", "Fatal", "FATAL",
      "traceback", "Traceback", "warning", "Warning", "WARNING",
      "cannot", "Cannot", "CANNOT", "unable", "Unable", "UNABLE",
      "denied", "Denied", "DENIED", "not found", "Not found", "NOT FOUND">>

is_error_line(line) ==
    \E i \in 1..Len(error_indicators) : contains(line, error_indicators[i])

\* the error lines of xs, each kept once
distinctErrorLines(xs) ==
    SelectSeq([i \in 1..Len(xs) |-> IF \E j \in 1..(i - 1) : xs[j] = xs[i] THEN "" ELSE xs[i]],
              is_error_line)

\* [x for x in xs if is_error_line(x)]
errorLinesOf(xs) == SelectSeq(xs, is_error_line)

truncate_terminal_output(output, cfg) ==
    LET lines == splitOn(rstrip(output), "\n")
        first_lines == Upto(lines, cfg.terminal_max_lines)
        remaining_lines == From(lines, cfg.terminal_max_lines)
        error_lines == IF cfg.terminal_include_errors THEN errorLinesOf(remaining_lines) ELSE <<>>
        omitted == Len(remaining_lines) - Len(error_lines)
        result_lines ==
            IF Len(error_lines) > 0
            THEN first_lines \o <<"... (" \o ToString(omitted) \o " lines omitted)">> \o error_lines
            ELSE first_lines \o <<"... (" \o ToString(Len(remaining_lines)) \o " more lines)">>
    IN  IF Len(lines) <= cfg.terminal_max_lines THEN rstrip(output)
        ELSE join(result_lines, "\n")

\* [f"{prefix}{item}" for item in xs]
prefixed(xs, prefix) == [i \in 1..Len(xs) |-> prefix \o xs[i]]

truncate_list(xs, cfg, prefix) ==
    IF Len(xs) = 0 THEN ""
    ELSE IF Len(xs) <= cfg.list_max_items THEN join(prefixed(xs, prefix), "\n")
    ELSE join(prefixed(Upto(xs, cfg.list_max_items), prefix), "\n")
         \o "\n" \o prefix \o "...and " \o ToString(Len(xs) - cfg.list_max_items) \o " more"

\* Optional[str]: None, or a str
None == <<>>
Some(s) == <<s>>
\* bool(x) of an Optional[str]
truthy(x) == x # None /\ x[1] # ""
\* a or b
orElse(a, b) == IF truthy(a) THEN a ELSE b
\* parameters.get(key) and parameters.get(key, default)
get(d, key) == IF key \in DOMAIN d THEN d[key] ELSE None
getDefault(d, key, default) == IF key \in DOMAIN d THEN d[key] ELSE default

\* the outcome of a call: the value returned, or the exception raised
Returned(s) == [value |-> s, raised |-> ""]
Raised(e) == [value |-> "", raised |-> e]

\* s.find(sep, from) for a separator of any length: the least offset, or -1
findStr(s, sep, from) ==
    LET hits == {i \in from..(Len(s) - Len(sep)) : SubSeq(s, i + 1, i + Len(sep)) = sep}
    IN  IF hits = {} THEN -1 ELSE Least(hits)

\* s.split(sep) for a non-empty separator
RECURSIVE splitStr(_, _)
splitStr(s, sep) ==
    LET i == findStr(s, sep, 0)
    IN  IF i < 0 THEN <<s>>
        ELSE <<SubSeq(s, 1, i)>> \o splitStr(SubSeq(s, i + Len(sep) + 1, Len(s)), sep)

\* s.replace(a, b) for a non-empty a
replace(s, a, b) == join(splitStr(s, a), b)

\* s.title(): each letter upper-cased after a non-letter, lower-cased after a letter
titleChar(s, i) ==
    LET c == At(s, i)
        cased(x) == x \in Uppers \cup Lowers
    IN  IF ~cased(c) THEN c
        ELSE IF i > 0 /\ cased(At(s, i - 1)) THEN lowerChar(c)
        ELSE upperChar(c)

title(s) == join([i \in 1..Len(s) |-> titleChar(s, i - 1)], "")

\* the longest command, and the cut, format_tool_use shows of a bash command
CommandMax == 50
CommandCut == 47
\* ... of a search pattern
PatternMax == 30
PatternCut == 27
\* ... of a URL, a web query and a task description
UrlMax == 40
QueryMax == 40
QueryCut == 37
DescriptionMax == 40
DescriptionCut == 37

\* value[:cut] + "..." when len(value) > max
shorten(value, max, cut) == IF Len(value) > max THEN Upto(value, cut) \o "..." ELSE value

\* re.match(r'https?://([^/]+)', url)
domain_pattern == Cat(<<Lit("http"), Opt(Lit("s")), Lit("://"), Grp(1, Plus(NotCls({"/"})))>>)

\* the read, write and edit branches: the basename of the path parameter
fileTool(parameters, label, fallback) ==
    LET path == orElse(orElse(get(parameters, "file_path"), get(parameters, "path")),
                       getDefault(parameters, "file", Some("")))
    IN  IF path = None THEN Raised("TypeError")       \* '/' in None
        ELSE LET parts == splitOn(path[1], "/")
                 filename == IF contains(path[1], "/") THEN parts[Len(parts)] ELSE path[1]
             IN  Returned(IF filename # "" THEN label \o filename ELSE fallback)

\* the bash, grep, web-search and task branches: a parameter cut to a length
cutTool(value, max, cut, label, fallback) ==
    IF value = None THEN Raised("TypeError")          \* len(None)
    ELSE LET shown == shorten(value[1], max, cut)
         IN  Returned(IF shown # "" THEN label \o shown ELSE fallback)

format_tool_use(tool_name, parameters) ==
    LET tool_lower == lower(tool_name)
    IN  IF tool_lower \in {"read", "read_file", "readfile", "cat"}
        THEN fileTool(parameters, "Reading: ", "Reading file")
        ELSE IF tool_lower \in {"write", "write_file", "writefile", "create"}
        THEN fileTool(parameters, "Writing: ", "Writing file")
        ELSE IF tool_lower \in {"edit", "edit_file", "editfile", "modify", "patch"}
        THEN fileTool(parameters, "Editing: ", "Editing file")
        ELSE IF tool_lower \in {"bash", "shell", "terminal", "exec", "execute", "run"}
        THEN cutTool(orElse(get(parameters, "command"), getDefault(parameters, "cmd", Some(""))),
                     CommandMax, CommandCut, "Running: ", "Running command")
        ELSE IF tool_lower \in {"grep", "search", "find", "ripgrep", "rg"}
        THEN cutTool(orElse(get(parameters, "pattern"), getDefault(parameters, "query", Some(""))),
                     PatternMax, PatternCut, "Searching: ", "Searching")
        ELSE IF tool_lower \in {"glob", "find_files", "ls", "list"}
        THEN LET pattern == orElse(get(parameters, "pattern"),
                                   getDefault(parameters, "path", Some("")))
             IN  Returned(IF truthy(pattern) THEN "Finding: " \o pattern[1] ELSE "Finding files")
        ELSE IF tool_lower \in {"webfetch", "web_fetch", "fetch", "curl", "wget"}
        THEN LET url == getDefault(parameters, "url", Some(""))
             IN  IF url = None THEN Raised("TypeError")    \* len(None)
                 ELSE LET subj == Subject(url[1])
                          domain_match == reMatch(domain_pattern, subj)
                          shown == IF Len(url[1]) > UrlMax /\ domain_match.ok
                                   THEN group(subj, domain_match, 1) ELSE url[1]
                      IN  Returned(IF shown # "" THEN "Fetching: " \o shown ELSE "Fetching URL")
        ELSE IF tool_lower \in {"websearch", "web_search", "search_web"}
        THEN cutTool(getDefault(parameters, "query", Some("")),
                     QueryMax, QueryCut, "Searching web: ", "Searching web")
        ELSE IF tool_lower \in {"task", "agent", "spawn"}
        THEN cutTool(orElse(get(parameters, "description"),
                            getDefault(parameters, "prompt", Some(""))),
                     DescriptionMax, DescriptionCut, "Task: ", "Running task")
        ELSE IF startswith(tool_lower, "mcp__")
        THEN LET parts == splitStr(tool_lower, "__")
             IN  Returned(IF Len(parts) >= 3
                          THEN "MCP: " \o replace(parts[Len(parts)], "_", " ")
                          ELSE "MCP: " \o tool_name)
        ELSE Returned(title(replace(replace(tool_name, "_", " "), "-", " ")))

(***************************************************************************)
(* scripts/titles.py                                                       *)
(***************************************************************************)
\* ACTION_VERBS: action verb -> gerund
ACTION_VERBS ==
    [create |-> "Creating", make |-> "Making", build |-> "Building",
     generate |-> "Generating", add |-> "Adding",
     implement |-> "Implementing", develop |-> "Developing",
     design |-> "Designing", write |-> "Writing", setup |-> "Setting Up",
     initialize |-> "Initializing", init |-> "Initializing",
     scaffold |-> "Scaffolding", bootstrap |-> "Bootstrapping",
     establish |-> "Establishing", introduce |-> "Introducing",
     compose |-> "Composing", construct |-> "Constructing",
     craft |-> "Crafting", draft |-> "Drafting", formulate |-> "Formulating",
     produce |-> "Producing", fix |-> "Fixing", update |-> "Updating",
     modify |-> "Modifying", change |-> "Changing", edit |-> "Editing",
     revise |-> "Revising", adjust |-> "Adjusting", alter |-> "Altering",
     amend |-> "Amending", correct |-> "Correcting", patch |-> "Patching",
     tweak |-> "Tweaking", enhance |-> "Enhancing", extend |-> "Extending",
     expand |-> "Expanding", upgrade |-> "Upgrading",
     improve |-> "Improving", refactor |-> "Refactoring",
     restructure |-> "Restructuring", reorganize |-> "Reorganizing",
     rework |-> "Reworking", rewrite |-> "Rewriting",
     simplify |-> "Simplifying", streamline |-> "Streamlining",
     clean |-> "Cleaning", cleanup |-> "Cleaning Up", tidy |-> "Tidying",
     modernize |-> "Modernizing", consolidate |-> "Consolidating",
     modularize |-> "Modularizing", decouple |-> "Decoupling",
     abstract |-> "Abstracting", extract |-> "Extracting",
     inline |-> "Inlining", rename |-> "Renaming", move |-> "Moving",
     relocate |-> "Relocating", merge |-> "Merging", split |-> "Splitting",
     separate |-> "Separating", remove |-> "Removing", delete |-> "Deleting",
     drop |-> "Dropping", eliminate |-> "Eliminating", clear |-> "Clearing",
     purge |-> "Purging", strip |-> "Stripping", deprecate |-> "Deprecating",
     disable |-> "Disabling", uninstall |-> "Uninstalling",
     test |-> "Testing", verify |-> "Verifying", validate |-> "Validating",
     check |-> "Checking", assert |-> "Asserting", ensure |-> "Ensuring",
     confirm |-> "Confirming", audit |-> "Auditing",
     inspect |-> "Inspecting", examine |-> "Examining",
     analyze |-> "Analyzing", analyse |-> "Analysing",
     evaluate |-> "Evaluating", assess |-> "Assessing",
     benchmark |-> "Benchmarking", profile |-> "Profiling",
     measure |-> "Measuring", monitor |-> "Monitoring", trace |-> "Tracing",
     lint |-> "Linting", debug |-> "Debugging",
     troubleshoot |-> "Troubleshooting", diagnose |-> "Diagnosing",
     investigate |-> "Investigating", resolve |-> "Resolving",
     solve |-> "Solving", address |-> "Addressing", handle |-> "Handling",
     track |-> "Tracking", identify |-> "Identifying",
     isolate |-> "Isolating", reproduce |-> "Reproducing",
     bisect |-> "Bisecting", document |-> "Documenting",
     describe |-> "Describing", explain |-> "Explaining",
     comment |-> "Commenting", annotate |-> "Annotating",
     clarify |-> "Clarifying", elaborate |-> "Elaborating",
     outline |-> "Outlining", summarize |-> "Summarizing",
     detail |-> "Detailing", specify |-> "Specifying", define |-> "Defining",
     note |-> "Noting", record |-> "Recording", log |-> "Logging",
     optimize |-> "Optimizing", accelerate |-> "Accelerating",
     boost |-> "Boosting", cache |-> "Caching",
     parallelize |-> "Parallelizing", async |-> "Making Async",
     lazy |-> "Lazy Loading", prefetch |-> "Prefetching",
     preload |-> "Preloading", compress |-> "Compressing",
     minify |-> "Minifying", bundle |-> "Bundling", deploy |-> "Deploying",
     release |-> "Releasing", publish |-> "Publishing", ship |-> "Shipping",
     launch |-> "Launching", push |-> "Pushing", rollout |-> "Rolling Out",
     rollback |-> "Rolling Back", revert |-> "Reverting",
     promote |-> "Promoting", migrate |-> "Migrating",
     provision |-> "Provisioning", configure |-> "Configuring",
     config |-> "Configuring", install |-> "Installing",
     secure |-> "Securing", encrypt |-> "Encrypting",
     decrypt |-> "Decrypting", hash |-> "Hashing", sanitize |-> "Sanitizing",
     escape |-> "Escaping", authenticate |-> "Authenticating",
     authorize |-> "Authorizing", protect |-> "Protecting",
     guard |-> "Guarding", shield |-> "Shielding", harden |-> "Hardening",
     lock |-> "Locking", restrict |-> "Restricting", limit |-> "Limiting",
     throttle |-> "Throttling", review |-> "Reviewing",
     approve |-> "Approving", reject |-> "Rejecting", accept |-> "Accepting",
     request |-> "Requesting", suggest |-> "Suggesting",
     propose |-> "Proposing", recommend |-> "Recommending",
     feedback |-> "Providing Feedback", critique |-> "Critiquing",
     integrate |-> "Integrating", connect |-> "Connecting",
     link |-> "Linking", bind |-> "Binding", wire |-> "Wiring",
     hook |-> "Hooking", attach |-> "Attaching", join |-> "Joining",
     combine |-> "Combining", unify |-> "Unifying", sync |-> "Syncing",
     synchronize |-> "Synchronizing", import |-> "Importing",
     export |-> "Exporting", load |-> "Loading", fetch |-> "Fetching",
     pull |-> "Pulling", get |-> "Getting", retrieve |-> "Retrieving",
     query |-> "Querying", search |-> "Searching", find |-> "Finding",
     lookup |-> "Looking Up", save |-> "Saving", store |-> "Storing",
     persist |-> "Persisting", serialize |-> "Serializing",
     deserialize |-> "Deserializing", parse |-> "Parsing",
     format |-> "Formatting", transform |-> "Transforming",
     convert |-> "Converting", map |-> "Mapping", reduce |-> "Reducing",
     filter |-> "Filtering", sort |-> "Sorting", group |-> "Grouping",
     aggregate |-> "Aggregating", normalize |-> "Normalizing",
     denormalize |-> "Denormalizing", flatten |-> "Flattening",
     nest |-> "Nesting", index |-> "Indexing", render |-> "Rendering",
     display |-> "Displaying", show |-> "Showing", hide |-> "Hiding",
     toggle |-> "Toggling", animate |-> "Animating",
     transition |-> "Transitioning", style |-> "Styling",
     theme |-> "Theming", layout |-> "Laying Out",
     position |-> "Positioning", align |-> "Aligning",
     center |-> "Centering", resize |-> "Resizing", scale |-> "Scaling",
     scroll |-> "Scrolling", paginate |-> "Paginating",
     virtualize |-> "Virtualizing", start |-> "Starting",
     stop |-> "Stopping", restart |-> "Restarting", pause |-> "Pausing",
     resume |-> "Resuming", suspend |-> "Suspending",
     terminate |-> "Terminating", kill |-> "Killing", spawn |-> "Spawning",
     fork |-> "Forking", clone |-> "Cloning", copy |-> "Copying",
     duplicate |-> "Duplicating", backup |-> "Backing Up",
     restore |-> "Restoring", recover |-> "Recovering",
     reset |-> "Resetting", finalize |-> "Finalizing",
     teardown |-> "Tearing Down", destroy |-> "Destroying",
     send |-> "Sending", receive |-> "Receiving",
     broadcast |-> "Broadcasting", emit |-> "Emitting",
     listen |-> "Listening", subscribe |-> "Subscribing",
     unsubscribe |-> "Unsubscribing", notify |-> "Notifying",
     alert |-> "Alerting", warn |-> "Warning", report |-> "Reporting",
     ping |-> "Pinging", poll |-> "Polling", stream |-> "Streaming",
     pipe |-> "Piping", route |-> "Routing", redirect |-> "Redirecting",
     forward |-> "Forwarding", proxy |-> "Proxying", run |-> "Running",
     execute |-> "Executing", invoke |-> "Invoking", call |-> "Calling",
     trigger |-> "Triggering", fire |-> "Firing", dispatch |-> "Dispatching",
     schedule |-> "Scheduling", queue |-> "Queueing",
     process |-> "Processing", compute |-> "Computing",
     calculate |-> "Calculating", determine |-> "Determining",
     decide |-> "Deciding", select |-> "Selecting", choose |-> "Choosing",
     pick |-> "Picking", use |-> "Using", apply |-> "Applying",
     enable |-> "Enabling", activate |-> "Activating",
     deactivate |-> "Deactivating", set |-> "Setting", unset |-> "Unsetting",
     assign |-> "Assigning", allocate |-> "Allocating",
     deallocate |-> "Deallocating", free |-> "Freeing",
     acquire |-> "Acquiring", obtain |-> "Obtaining",
     register |-> "Registering", unregister |-> "Unregistering",
     mount |-> "Mounting", unmount |-> "Unmounting", wrap |-> "Wrapping",
     unwrap |-> "Unwrapping", pack |-> "Packing", unpack |-> "Unpacking",
     encode |-> "Encoding", decode |-> "Decoding", compile |-> "Compiling",
     transpile |-> "Transpiling", interpret |-> "Interpreting",
     exec |-> "Executing"]
    @@ ("set up" :> "Setting Up")
    @@ ("clean up" :> "Cleaning Up")
    @@ ("speed up" :> "Speeding Up")
    @@ ("tree-shake" :> "Tree Shaking")
    @@ ("roll out" :> "Rolling Out")
    @@ ("roll back" :> "Rolling Back")
    @@ ("rate-limit" :> "Rate Limiting")
    @@ ("look up" :> "Looking Up")

\* COMMON_PREFIXES, each compiled with re.IGNORECASE (literals in lower case)
COMMON_PREFIXES ==
    <<Cat(<<Bol, Lit("hey"), Plus(Space), Lit("claude"), Opt(Cls({",", "."})), Star(Space)>>),
      Cat(<<Bol, Lit("hi"), Plus(Space), Lit("claude"), Opt(Cls({",", "."})), Star(Space)>>),
      Cat(<<Bol, Lit("hello"), Plus(Space), Lit("claude"), Opt(Cls({",", "."})), Star(Space)>>),
      Cat(<<Bol, Lit("dear"), Plus(Space), Lit("claude"), Opt(Cls({",", "."})), Star(Space)>>),
      Cat(<<Bol, Lit("claude"), Opt(Cls({",", "."})), Star(Space)>>),
      Cat(<<Bol, Lit("can"), Plus(Space), Lit("you"), Plus(Space), Opt(Grp(1, Cat(<<Lit("please"),
          Plus(Space)>>)))>>),
      Cat(<<Bol, Lit("could"), Plus(Space), Lit("you"), Plus(Space), Opt(Grp(1,
          Cat(<<Lit("please"), Plus(Space)>>)))>>),
      Cat(<<Bol, Lit("would"), Plus(Space), Lit("you"), Plus(Space), Opt(Grp(1,
          Cat(<<Lit("please"), Plus(Space)>>)))>>),
      Cat(<<Bol, Lit("will"), Plus(Space), Lit("you"), Plus(Space), Opt(Grp(1, Cat(<<Lit("please"),
          Plus(Space)>>)))>>),
      Cat(<<Bol, Lit("please"), Plus(Space), Opt(Grp(1, Cat(<<Lit("can"), Plus(Space), Lit("you"),
          Plus(Space)>>)))>>),
      Cat(<<Bol, Lit("i"), Plus(Space), Lit("need"), Plus(Space), Lit("you"), Plus(Space),
          Lit("to"), Plus(Space)>>),
      Cat(<<Bol, Lit("i"), Plus(Space), Lit("want"), Plus(Space), Lit("you"), Plus(Space),
          Lit("to"), Plus(Space)>>),
      Cat(<<Bol, Lit("i"), Opt(Lit("'")), Lit("d"), Plus(Space), Lit("like"), Plus(Space),
          Lit("you"), Plus(Space), Lit("to"), Plus(Space)>>),
      Cat(<<Bol, Lit("i"), Plus(Space), Lit("would"), Plus(Space), Lit("like"), Plus(Space),
          Lit("you"), Plus(Space), Lit("to"), Plus(Space)>>),
      Cat(<<Bol, Lit("help"), Plus(Space), Lit("me"), Plus(Space), Opt(Grp(1, Cat(<<Lit("to"),
          Plus(Space)>>)))>>),
      Cat(<<Bol, Lit("let"), Opt(Lit("'")), Lit("s"), Plus(Space)>>),
      Cat(<<Bol, Lit("go"), Plus(Space), Lit("ahead"), Plus(Space), Lit("and"), Plus(Space)>>),
      Cat(<<Bol, Lit("now"), Plus(Space)>>),
      Cat(<<Bol, Lit("next"), Opt(Cls({",", "."})), Plus(Space)>>),
      Cat(<<Bol, Lit("then"), Opt(Cls({",", "."})), Plus(Space)>>),
      Cat(<<Bol, Lit("also"), Opt(Cls({",", "."})), Plus(Space)>>),
      Cat(<<Bol, Lit("additionally"), Opt(Cls({",", "."})), Plus(Space)>>),
      Cat(<<Bol, Lit("furthermore"), Opt(Cls({",", "."})), Plus(Space)>>),
      Cat(<<Bol, Lit("moreover"), Opt(Cls({",", "."})), Plus(Space)>>),
      Cat(<<Bol, Lit("okay"), Opt(Cls({",", "."})), Star(Space)>>),
      Cat(<<Bol, Lit("ok"), Opt(Cls({",", "."})), Star(Space)>>),
      Cat(<<Bol, Lit("so"), Opt(Cls({",", "."})), Star(Space)>>),
      Cat(<<Bol, Lit("well"), Opt(Cls({",", "."})), Star(Space)>>),
      Cat(<<Bol, Lit("alright"), Opt(Cls({",", "."})), Star(Space)>>),
      Cat(<<Bol, Lit("right"), Opt(Cls({",", "."})), Star(Space)>>),
      Cat(<<Bol, Lit("sure"), Opt(Cls({",", "."})), Star(Space)>>),
      Cat(<<Bol, Lit("yeah"), Opt(Cls({",", "."})), Star(Space)>>),
      Cat(<<Bol, Lit("yes"), Opt(Cls({",", "."})), Star(Space)>>),
      Cat(<<Bol, Lit("u"), Plus(Lit("m")), Opt(Cls({",", "."})), Star(Space)>>),
      Cat(<<Bol, Lit("u"), Plus(Lit("h")), Opt(Cls({",", "."})), Star(Space)>>),
      Cat(<<Bol, Lit("hm"), Plus(Lit("m")), Opt(Cls({",", "."})), Star(Space)>>),
      Cat(<<Bol, Lit("just"), Plus(Space)>>),
      Cat(<<Bol, Lit("quickly"), Plus(Space)>>),
      Cat(<<Bol, Lit("simply"), Plus(Space)>>),
      Cat(<<Bol, Lit("basically"), Plus(Space)>>)>>

\* TECHNICAL_NOISE_PATTERNS, each compiled with re.IGNORECASE (literals in lower case)
TECHNICAL_NOISE_PATTERNS ==
    <<Cat(<<Bol, Alt(<<Lit("unchecked"), Lit("error"), Lit("warning"), Lit("failed"),
        Lit("exception"), Lit("typeerror"), Lit("syntaxerror"), Lit("referenceerror")>>)>>),
      Cat(<<Bol, Alt(<<Lit("runtime."), Lit("console."), Lit("window.")>>)>>),
      Cat(<<Bol, Lit("["), Plus(Cls(WordChars \cup Whitespace)), Lit("]")>>),
      Cat(<<Bol, Times(Digit, 4), Lit("-"), Times(Digit, 2), Lit("-"), Times(Digit, 2)>>),
      Cat(<<Bol, Lit("at"), Plus(Space), Plus(Word), Star(Space), Lit("(")>>),
      Cat(<<Bol, Alt(<<Lit("get"), Lit("post"), Lit("put"), Lit("delete"), Lit("patch")>>),
          Plus(Space), Lit("/")>>),
      Cat(<<Bol, Times(Digit, 3), Plus(Space)>>),
      Cat(<<Bol, Alt(<<Lit("npm"), Lit("yarn"), Lit("pnpm")>>), Plus(Space), Alt(<<Lit("err"),
          Lit("warn")>>)>>),
      Cat(<<Bol, Times(Lit("."), 3)>>)>>

FILE_PATH_PATTERN ==
    Cat(<<Alt(<<Bol, Cls(Whitespace \cup {"'", "\"", "("})>>), Grp(1, Cat(<<Opt(Cat(<<Rep(Lit("."),
        0, 2, TRUE), Lit("/")>>)), Star(Cat(<<Plus(Cls(WordChars \cup {".", "-"})), Lit("/")>>)),
        Plus(Cls(WordChars \cup {".", "-"})), Lit("."), Plus(Word)>>)), Alt(<<Eol,
        Cls(Whitespace \cup {"'", "\"", ")"})>>)>>)

\* the back-quote character (a string literal cannot hold it on its own)
Backtick == SubSeq("`'", 1, 1)

\* the characters that open and close a quoted string
Quotes == {"'", "\"", Backtick}

QUOTED_STRING_PATTERN ==
    Cat(<<Cls(Quotes), Grp(1, LazyPlus(NotCls(Quotes))), Cls(Quotes)>>)

\* FEATURE_PATTERNS, each compiled with re.IGNORECASE (literals in lower case)
FEATURE_PATTERNS ==
    <<Cat(<<Opt(Cat(<<Lit("the"), Plus(Space)>>)), Grp(1, Cat(<<Plus(Word),
        LazyStar(Cat(<<Plus(Space), Plus(Word)>>))>>)), Plus(Space), Alt(<<Lit("feature"),
        Lit("functionality"), Lit("capability"), Lit("module"), Lit("component"), Lit("service"),
        Lit("system"), Lit("api"), Lit("endpoint"), Lit("route"), Lit("page"), Lit("view"),
        Lit("screen"), Lit("form"), Lit("button"), Lit("modal"), Lit("dialog"), Lit("panel"),
        Lit("widget"), Lit("controller"), Lit("handler"), Lit("middleware"), Lit("hook"),
        Lit("util"), Lit("helper"), Lit("function"), Lit("method"), Lit("class"), Lit("interface"),
        Lit("type"), Lit("model"), Lit("schema"), Lit("migration"), Lit("seed"), Lit("fixture"),
        Lit("test"), Lit("spec"), Lit("config"), Lit("setting"), Lit("option"), Lit("parameter"),
        Lit("argument"), Lit("variable"), Lit("constant"), Lit("enum"), Lit("flag"), Lit("toggle"),
        Lit("switch")>>)>>),
      Cat(<<Opt(Cat(<<Lit("the"), Plus(Space)>>)), Grp(1, Cat(<<Plus(Word),
          LazyStar(Cat(<<Plus(Space), Plus(Word)>>))>>)), Plus(Space), Alt(<<Lit("bug"),
          Lit("issue"), Lit("error"), Lit("problem"), Lit("defect"), Lit("regression"),
          Lit("glitch"), Lit("flaw")>>)>>),
      Cat(<<Opt(Cat(<<Lit("the"), Plus(Space)>>)), Grp(1, Cat(<<Plus(Word),
          LazyStar(Cat(<<Plus(Space), Plus(Word)>>))>>)), Plus(Space), Alt(<<Lit("logic"),
          Lit("algorithm"), Lit("implementation"), Lit("behavior"), Lit("behaviour"), Lit("flow"),
          Lit("process"), Lit("workflow"), Lit("pipeline"), Lit("chain")>>)>>),
      Cat(<<Opt(Cat(<<Lit("a"), Plus(Space)>>)), Lit("new"), Plus(Space), Grp(1, Cat(<<Plus(Word),
          Star(Cat(<<Plus(Space), Plus(Word)>>))>>))>>),
      Cat(<<Opt(Cat(<<Lit("the"), Plus(Space)>>)), Grp(1, Plus(Word)), Plus(Space),
          Alt(<<Lit("to"), Lit("for"), Lit("in"), Lit("on"), Lit("at"), Lit("with")>>),
          Plus(Space)>>)>>

STOP_WORDS ==
    {"a", "an", "the", "this", "that", "these", "those", "i", "you", "we",
     "they", "he", "she", "it", "my", "your", "our", "their", "his", "her",
     "its", "me", "us", "them", "him", "is", "are", "was", "were", "be",
     "been", "being", "have", "has", "had", "having", "do", "does", "did",
     "doing", "will", "would", "could", "should", "may", "might", "must",
     "shall", "can", "need", "want", "and", "or", "but", "nor", "so", "yet",
     "for", "in", "on", "at", "to", "of", "from", "by", "with", "as", "into",
     "onto", "upon", "out", "up", "down", "off", "over", "under", "through",
     "between", "among", "within", "without", "about", "after", "before",
     "during", "since", "until", "unless", "while", "although", "if", "when",
     "where", "how", "why", "what", "which", "who", "whom", "some", "any",
     "all", "most", "many", "much", "few", "several", "each", "every",
     "either", "neither", "both", "other", "another", "such", "same",
     "different", "various", "certain", "first", "second", "third", "last",
     "next", "previous", "new", "old", "good", "bad", "best", "worst",
     "better", "worse", "big", "small", "large", "little", "great", "long",
     "short", "high", "low", "top", "bottom", "left", "right", "front",
     "back", "more", "less", "very", "too", "enough", "quite", "rather",
     "really", "just", "only", "even", "still", "already", "always", "never",
     "often", "sometimes", "usually", "also", "again", "now", "then", "here",
     "there", "please", "thanks", "thank", "sorry", "okay", "ok", "yes",
     "no", "maybe", "perhaps", "probably", "possibly", "certainly",
     "definitely", "actually", "basically", "essentially", "simply",
     "mainly", "mostly", "especially", "particularly", "specifically",
     "generally", "typically", "however", "therefore", "thus", "hence",
     "consequently", "accordingly", "furthermore", "moreover",
     "additionally", "besides", "meanwhile", "instead", "otherwise",
     "nevertheless", "nonetheless", "regardless"}

\* the separator _find_meaningful_sentence splits on: space after . ! ? or newlines
sentence_split_pattern ==
    Alt(<<Cat(<<Behind({".", "!", "?"}), Plus(Space)>>), Plus(Lit("\n"))>>)

\* the request patterns of _clean_prompt, searched with re.IGNORECASE (literals in lower case)
request_patterns ==
    <<Cat(<<Alt(<<Lit("please"), Lit("can you"), Lit("need to"), Lit("want to"), Lit("help me")>>),
        Plus(Space), Grp(1, LazyPlus(NotCls({"\n"}))), Alt(<<Lit("."), Eol>>)>>),
      Cat(<<Alt(<<Lit("fix"), Lit("update"), Lit("create"), Lit("add"), Lit("implement"),
          Lit("review"), Lit("check")>>), Plus(Space), Grp(1, LazyPlus(NotCls({"\n"}))),
          Alt(<<Lit("."), Eol>>)>>)>>

\* the leading article _extract_meaningful_nouns removes, under re.IGNORECASE
leading_article_pattern ==
    Cat(<<Bol, Grp(1, Alt(<<Lit("the"), Lit("a"), Lit("an"), Lit("some"), Lit("any")>>)),
        Plus(Space)>>)

\* the characters _extract_meaningful_nouns deletes from a word
non_word_pattern ==
    NotCls(WordChars \cup {"-", "."})

\* str.split(): the maximal runs of non-space characters
RECURSIVE words(_)
words(s) ==
    With(lstrip(s), LAMBDA t :
        IF t = "" THEN <<>>
        ELSE With(reMatch(Plus(NotCls(Whitespace)), Subject(t)), LAMBDA m :
                <<Upto(t, m.end)>> \o words(From(t, m.end))))

_is_technical_noise(s) ==
    LET subj == SubjectI(s)
    IN  \E i \in 1..Len(TECHNICAL_NOISE_PATTERNS) : reMatch(TECHNICAL_NOISE_PATTERNS[i], subj).ok

\* the request indicators of _find_meaningful_sentence
request_indicators ==
    <<"please", "can you", "need to", "want to", "help me",
      "should", "fix", "update", "create", "review">>

\* the loop of _find_meaningful_sentence over the sentences
RECURSIVE firstMeaningful(_)
firstMeaningful(sentences) ==
    IF Len(sentences) = 0 THEN None
    ELSE
    LET sentence == strip(Head(sentences))
        sentence_lower == lower(sentence)
    IN  IF sentence = "" \/ Len(sentence) < 5 THEN firstMeaningful(Tail(sentences))
        ELSE IF _is_technical_noise(sentence) THEN firstMeaningful(Tail(sentences))
        ELSE IF startswith(sentence, "/") \/ startswith(sentence, "http")
        THEN firstMeaningful(Tail(sentences))
        ELSE IF \E verb \in DOMAIN ACTION_VERBS : contains(sentence_lower, verb)
        THEN Some(sentence)
        ELSE IF \E i \in 1..Len(request_indicators) :
                    contains(sentence_lower, request_indicators[i])
        THEN Some(sentence)
        ELSE firstMeaningful(Tail(sentences))

_find_meaningful_sentence(s) == firstMeaningful(reSplit(sentence_split_pattern, Subject(s)))

\* the loop of _clean_prompt over the request patterns: the first matched span
RECURSIVE requestSpan(_, _)
requestSpan(cleaned, i) ==
    IF i > Len(request_patterns) THEN cleaned
    ELSE With(reSearch(request_patterns[i], SubjectI(cleaned)), LAMBDA m :
            IF m.ok THEN strip(Slice(cleaned, m.start, m.end))
            ELSE requestSpan(cleaned, i + 1))

\* the loop of _clean_prompt over COMMON_PREFIXES: one pass, in list order
RECURSIVE stripPrefixes(_, _)
stripPrefixes(cleaned, i) ==
    IF i > Len(COMMON_PREFIXES) THEN cleaned
    ELSE With(reSubEmpty(COMMON_PREFIXES[i], SubjectI(cleaned)), LAMBDA stripped :
            IF stripped = cleaned THEN stripPrefixes(cleaned, i + 1)
            ELSE stripPrefixes(stripped, i + 1))

\* cleaned.strip(" \t\n\r.,;:!?-")
CleanEdges == {" ", "\t", "\n", "\r", ".", ",", ";", ":", "!", "?", "-"}

_clean_prompt(prompt0) ==
    With(strip(prompt0), LAMBDA stripped :
    With(IF ~_is_technical_noise(stripped) THEN stripped
         ELSE With(_find_meaningful_sentence(stripped), LAMBDA meaningful :
                IF truthy(meaningful) THEN meaningful[1]
                ELSE requestSpan(stripped, 1)),
         LAMBDA recovered : stripOf(stripPrefixes(recovered, 1), CleanEdges)))

\* _find_action_verb with the first word alone tried before the first two words
singleWordFirst(s) ==
    With(words(lower(s)), LAMBDA lowered :
        IF Len(lowered) = 0 THEN <<None, s>>
        ELSE IF lowered[1] \in DOMAIN ACTION_VERBS
        THEN <<Some(ACTION_VERBS[lowered[1]]), join(From(words(s), 1), " ")>>
        ELSE IF Len(lowered) >= 2 /\ (lowered[1] \o " " \o lowered[2]) \in DOMAIN ACTION_VERBS
        THEN <<Some(ACTION_VERBS[lowered[1] \o " " \o lowered[2]]),
               join(From(words(s), 2), " ")>>
        ELSE <<None, s>>)

\* _find_action_verb(text) -> (gerund or None, remaining)
_find_action_verb(s) ==
    With(words(lower(s)), LAMBDA lowered :
        IF Len(lowered) = 0 THEN <<None, s>>
        ELSE IF Len(lowered) >= 2 /\ (lowered[1] \o " " \o lowered[2]) \in DOMAIN ACTION_VERBS
        THEN <<Some(ACTION_VERBS[lowered[1] \o " " \o lowered[2]]),
               join(From(words(s), 2), " ")>>
        ELSE IF lowered[1] \in DOMAIN ACTION_VERBS
        THEN <<Some(ACTION_VERBS[lowered[1]]), join(From(words(s), 1), " ")>>
        ELSE <<None, s>>)

\* _extract_quoted_string without the strip() of the group
unstrippedQuotedString(s) ==
    With(reSearch(QUOTED_STRING_PATTERN, Subject(s)), LAMBDA m :
        IF m.ok THEN Some(group(Subject(s), m, 1)) ELSE None)

_extract_quoted_string(s) ==
    With(reSearch(QUOTED_STRING_PATTERN, Subject(s)), LAMBDA m :
        IF m.ok THEN Some(strip(group(Subject(s), m, 1))) ELSE None)

_extract_file_path(s) ==
    With(reSearch(FILE_PATH_PATTERN, Subject(s)), LAMBDA m :
        IF ~m.ok THEN None
        ELSE With(strip(group(Subject(s), m, 1)), LAMBDA path :
                IF contains(path, "/") \/ contains(path, ".") THEN Some(path) ELSE None))

\* the loop of _extract_feature_phrase over FEATURE_PATTERNS
RECURSIVE featurePhrase(_, _)
featurePhrase(subj, i) ==
    IF i > Len(FEATURE_PATTERNS) THEN None
    ELSE With(reSearch(FEATURE_PATTERNS[i], subj), LAMBDA m :
            IF ~m.ok THEN featurePhrase(subj, i + 1)
            ELSE With(strip(group(subj, m, 1)), LAMBDA phrase :
                 With(words(lower(phrase)), LAMBDA ws :
                    IF \E k \in 1..Len(ws) : ws[k] \notin STOP_WORDS THEN Some(phrase)
                    ELSE featurePhrase(subj, i + 1))))

_extract_feature_phrase(s) == featurePhrase(SubjectI(s), 1)

\* the default max_words of _extract_meaningful_nouns
MaxNounWords == 4

\* the words at which _extract_meaningful_nouns stops collecting
NounBoundaries == {"to", "for", "in", "on", "at", "with", "by", "from", "and", "or"}

\* the loop of _extract_meaningful_nouns over the words
RECURSIVE meaningfulWords(_, _, _)
meaningfulWords(ws, collected, max_words) ==
    IF Len(ws) = 0 THEN collected
    ELSE
    With(reSubEmpty(non_word_pattern, Subject(Head(ws))), LAMBDA clean_word :
        IF clean_word = "" THEN meaningfulWords(Tail(ws), collected, max_words)
        ELSE IF lower(clean_word) \in STOP_WORDS /\ Len(collected) = 0
        THEN meaningfulWords(Tail(ws), collected, max_words)
        ELSE IF lower(clean_word) \in NounBoundaries
        THEN (IF Len(collected) > 0 THEN collected
              ELSE meaningfulWords(Tail(ws), collected, max_words))
        ELSE IF Len(collected) + 1 >= max_words THEN Append(collected, clean_word)
        ELSE meaningfulWords(Tail(ws), Append(collected, clean_word), max_words))

_extract_meaningful_nouns(s, max_words) ==
    With(meaningfulWords(words(reSubEmpty(leading_article_pattern, SubjectI(s))),
                         <<>>, max_words),
         LAMBDA meaningful_words :
            IF Len(meaningful_words) > 0 THEN Some(join(meaningful_words, " ")) ELSE None)

\* str.isupper(): some cased character, and no lower-case one
isupper(s) ==
    /\ \E i \in 0..(Len(s) - 1) : At(s, i) \in Uppers
    /\ \A i \in 0..(Len(s) - 1) : At(s, i) \notin Lowers

\* str.capitalize()
capitalize(s) == IF s = "" THEN s ELSE upperChar(At(s, 0)) \o lower(From(s, 1))

\* "/" in s or (s.startswith(".") and "." in s[1:])
looksLikePath(s) == contains(s, "/") \/ (startswith(s, ".") /\ contains(From(s, 1), "."))

\* the words _title_case lower-cases inside a title
SmallWords == {"a", "an", "the", "and", "or", "but", "in", "on", "at", "to",
               "for", "of", "with", "by"}

\* the branch of _title_case for word i (0-based)
titleWord(word, i) ==
    IF looksLikePath(word) THEN word
    ELSE IF isupper(word) /\ Len(word) > 1 THEN word
    ELSE IF \E k \in 1..(Len(word) - 1) : At(word, k) \in Uppers THEN word
    ELSE IF i > 0 /\ lower(word) \in SmallWords THEN lower(word)
    ELSE capitalize(word)

_title_case(s) ==
    IF looksLikePath(s) THEN s
    ELSE With(words(s), LAMBDA ws :
            join([i \in 1..Len(ws) |-> titleWord(ws[i], i - 1)], " "))

\* the fallback title with the number of the turn before
zeroBasedTitle(n) == "Turn " \o ToString(n - 1)

\* f"Turn {turn_number}"
fallbackTitle(n) == "Turn " \o ToString(n)

\* the longest leftover text generate_turn_title puts after a gerund
RemainingMax == 50

\* variant of the extractors' order: the file path before the quoted string
extractPathFirst(cleaned_, gerund_, remaining_) ==
    With(IF truthy(gerund_) THEN remaining_ ELSE cleaned_, LAMBDA target_ :
    With(_extract_file_path(target_), LAMBDA path :
        IF truthy(path) THEN path
        ELSE With(_extract_quoted_string(cleaned_), LAMBDA quoted :
                IF truthy(quoted) THEN quoted
                ELSE With(_extract_feature_phrase(target_), LAMBDA feature :
                        IF truthy(feature) THEN feature
                        ELSE _extract_meaningful_nouns(target_, MaxNounWords)))))

\* steps 3a-3d of generate_turn_title: the extractors in priority order
extractSubject(cleaned_, gerund_, remaining_) ==
    With(IF truthy(gerund_) THEN remaining_ ELSE cleaned_, LAMBDA target :
    With(_extract_quoted_string(cleaned_), LAMBDA quoted :
        IF truthy(quoted) THEN quoted
        ELSE With(_extract_file_path(target), LAMBDA path :
                IF truthy(path) THEN path
                ELSE With(_extract_feature_phrase(target), LAMBDA feature :
                        IF truthy(feature) THEN feature
                        ELSE _extract_meaningful_nouns(target, MaxNounWords)))))

\* step 4 and 5 of generate_turn_title
assembleTitle(gerund_, subject_, remaining_, n) ==
    IF truthy(gerund_) /\ truthy(subject_) THEN gerund_[1] \o " " \o _title_case(subject_[1])
    ELSE IF truthy(gerund_)
    THEN (IF remaining_ # "" /\ Len(remaining_) > 2
          THEN gerund_[1] \o " " \o _title_case(Upto(remaining_, RemainingMax))
          ELSE gerund_[1])
    ELSE IF truthy(subject_) THEN _title_case(subject_[1])
    ELSE fallbackTitle(n)

generate_turn_title(prompt_, n) ==
    IF prompt_ = "" \/ strip(prompt_) = "" THEN fallbackTitle(n)
    ELSE
    With(_clean_prompt(prompt_), LAMBDA cleaned_ :
        IF cleaned_ = "" THEN fallbackTitle(n)
        ELSE With(_find_action_verb(cleaned_), LAMBDA found :
                assembleTitle(found[1], extractSubject(cleaned_, found[1], found[2]),
                              found[2], n)))

\* the continuation title that adds the suffix whatever the end of the base
alwaysContinued(base_title) ==
    IF base_title = "" THEN "(continued)" ELSE base_title \o " (continued)"

generate_continued_title(base_title) ==
    IF base_title = "" THEN "(continued)"
    ELSE IF endswith(base_title, "(continued)") THEN base_title
    ELSE base_title \o " (continued)"

\* len(title.split()): the number of runs of non-whitespace characters
wordCount(s) ==
    Cardinality({i \in 0..(Len(s) - 1) :
                    At(s, i) \notin Whitespace /\ (i = 0 \/ At(s, i - 1) \in Whitespace)})

\* title.strip("\"'.,;:!?")
TitleEdges == {"\"", "'", ".", ",", ";", ":", "!", "?"}

\* What "import requests; requests.post(...)" comes to: an exception (raises
\* is its class), or a response with a status code and a body.  A body is not
\* JSON ("invalid"), JSON that is no object ("array"), or an object, whose
\* fields map a key to None (null or any value that is no string) or a string.
Raising(exception) == [raises |-> exception, status_code |-> 0, json |-> "", fields |-> <<>>]
Replying(status, kind, fs) == [raises |-> "", status_code |-> status, json |-> kind, fields |-> fs]

\* The try block of generate_title_ollama: the title it returns, None when it
\* raises an exception (caught by "except Exception") or falls through.
modelTitle(reply) ==
    IF reply.raises # "" THEN None
    ELSE IF reply.status_code # 200 THEN None
    ELSE IF reply.json # "object" THEN None
    ELSE With(getDefault(reply.fields, "response", Some("")), LAMBDA value :
            IF value = None THEN None
            ELSE With(strip(value[1]), LAMBDA t :
                    IF t # "" /\ 2 <= wordCount(t) /\ wordCount(t) <= 6
                    THEN Some(stripOf(t, TitleEdges))
                    ELSE None))

generate_title_ollama(prompt, n, reply) ==
    With(modelTitle(reply), LAMBDA t :
        IF t # None THEN t[1] ELSE generate_turn_title(prompt, n))

(***************************************************************************)
(* parser.py: the turns of a session, and generate_slides.session_to_dict  *)
(***************************************************************************)
\* A Turn has a role, a content and a timestamp (None, or a datetime).  A
\* content is a str (str is Some of it) or a list of ContentBlocks (str is
\* None).  A ContentBlock has a type, a text (None, or a str) and a tool_use
\* (None, or a ToolUse); a ToolUse has a name and an input dict.
StrContent(s) == [str |-> Some(s), blocks |-> <<>>]
BlockContent(bs) == [str |-> None, blocks |-> bs]
TextBlock(s) == [type |-> "text", text |-> Some(s), tool_use |-> None]
ToolResultBlock(s) == [type |-> "tool_result", text |-> Some(s), tool_use |-> None]
ToolUseBlock(name, input) ==
    [type |-> "tool_use", text |-> None, tool_use |-> Some([name |-> name, input |-> input])]

\* the characters of a tool result get_text_content shows, and of a command
\* get_description shows
ToolResultShown == 200
CommandShown == 80

\* ToolUse.get_description
get_description(tool) ==
    With(getDefault(tool.input, "description", ""), LAMBDA desc :
        IF desc # "" THEN desc
        ELSE IF tool.name = "Bash"
             THEN With(getDefault(tool.input, "command", ""), LAMBDA cmd :
                    "Run: " \o Upto(cmd, CommandShown)
                    \o (IF Len(cmd) > CommandShown THEN "..." ELSE ""))
        ELSE IF tool.name = "Read" THEN "Read: " \o getDefault(tool.input, "file_path", "file")
        ELSE IF tool.name = "Write" THEN "Write: " \o getDefault(tool.input, "file_path", "file")
        ELSE IF tool.name = "Edit" THEN "Edit: " \o getDefault(tool.input, "file_path", "file")
        ELSE IF tool.name = "Glob" THEN "Search: " \o getDefault(tool.input, "pattern", "files")
        ELSE IF tool.name = "Grep"
             THEN "Search for: " \o getDefault(tool.input, "pattern", "pattern")
        ELSE IF tool.name = "WebFetch" THEN "Fetch: " \o getDefault(tool.input, "url", "url")
        ELSE IF tool.name = "WebSearch" THEN "Search: " \o getDefault(tool.input, "query", "query")
        ELSE tool.name)

\* the text get_text_content takes from one block, None when it takes none
blockText(block) ==
    IF block.type = "text" /\ truthy(block.text) THEN block.text
    ELSE IF block.type = "tool_result" /\ truthy(block.text)
         THEN Some("[Tool Result]: " \o Upto(block.text[1], ToolResultShown) \o "...")
    ELSE None

\* Turn.get_text_content
get_text_content(turn) ==
    IF turn.content.str # None THEN turn.content.str[1]
    ELSE With(SelectSeq([i \in 1..Len(turn.content.blocks) |-> blockText(turn.content.blocks[i])],
                        LAMBDA t : t # None),
              LAMBDA texts : join([i \in 1..Len(texts) |-> texts[i][1]], "\n"))

\* Turn.get_tool_uses
get_tool_uses(turn) ==
    IF turn.content.str # None THEN <<>>
    ELSE With(SelectSeq(turn.content.blocks,
                        LAMBDA b : b.type = "tool_use" /\ b.tool_use # None),
              LAMBDA bs : [i \in 1..Len(bs) |-> bs[i].tool_use[1]])

\* Turn.is_user_message
is_user_message(turn) ==
    IF turn.role # "user" THEN FALSE
    ELSE IF turn.content.str # None THEN TRUE
    ELSE ~\E i \in 1..Len(turn.content.blocks) : turn.content.blocks[i].type = "tool_result"

\* n as two decimal digits
twoDigits(n) == (IF n < 10 THEN "0" ELSE "") \o ToString(n)

\* datetime.isoformat() of a UTC datetime on 2024-01-01, hour 0
isoformat(dt) ==
    "2024-01-01T00:" \o twoDigits(dt.minute) \o ":" \o twoDigits(dt.second) \o "+00:00"

\* turn.timestamp.isoformat() if turn.timestamp else None
timestampOf(turn) == IF turn.timestamp # None THEN Some(isoformat(turn.timestamp[1])) ELSE None

\* the dicts session_to_dict makes of the tool uses of a turn
toolsFormatted(tool_uses) ==
    [i \in 1..Len(tool_uses) |->
        [name |-> tool_uses[i].name, input |-> tool_uses[i].input,
         description |-> get_description(tool_uses[i])]]

\* the loop of session_to_dict over session.turns, from turn i on
RECURSIVE turnsData(_, _, _)
turnsData(turns, i, turn_num) ==
    IF i > Len(turns) THEN <<>>
    ELSE IF is_user_message(turns[i])
    THEN With(get_text_content(turns[i]), LAMBDA user_content :
            <<[number |-> turn_num + 1, role |-> "user", content |-> user_content,
               title |-> generate_turn_title(user_content, turn_num + 1),
               timestamp |-> timestampOf(turns[i])]>>
            \o turnsData(turns, i + 1, turn_num + 1))
    ELSE <<[number |-> turn_num, role |-> "assistant",
            content |-> get_text_content(turns[i]),
            tools |-> toolsFormatted(get_tool_uses(turns[i])),
            timestamp |-> timestampOf(turns[i])]>>
         \o turnsData(turns, i + 1, turn_num)

session_to_dict(sess) ==
    [session_id |-> sess.session_id,
     project_path |-> sess.project_path,
     turns |-> turnsData(sess.turns, 1, 0),
     created_at |-> IF Len(sess.turns) > 0 THEN timestampOf(sess.turns[1]) ELSE None,
     \* turn_num after the loop: the number of user messages
     total_turns |-> Cardinality({i \in 1..Len(sess.turns) : is_user_message(sess.turns[i])})]

(***************************************************************************)
(* parser.py: the lines of a session log, parse_jsonl and extract_turns    *)
(***************************************************************************)
\* What json.loads makes of a line: kind is the JSON type of the document and
\* object the dict of a document of kind "object".  Of an entry, the model
\* keeps the keys extract_turns and session_to_dict read: type, cwd,
\* timestamp and message.content (None where the key is absent).
NoEntry == [type |-> None, cwd |-> None, timestamp |-> None, content |-> None]
Object(entry) == [kind |-> "object", object |-> entry]
Scalar(kind) == [kind |-> kind, object |-> NoEntry]
Entry(type, cwd, timestamp, content) ==
    Object([type |-> type, cwd |-> cwd, timestamp |-> timestamp, content |-> content])

\* a block of message.content, as json.loads gives it
TextData(s) == [type |-> "text", text |-> Some(s), content |-> None, name |-> None, input |-> <<>>]
ToolResultData(s) ==
    [type |-> "tool_result", text |-> None, content |-> Some(s), name |-> None, input |-> <<>>]
ToolUseData(name, input) ==
    [type |-> "tool_use", text |-> None, content |-> None, name |-> Some(name), input |-> input]

\* the JSON documents of the model, each with the text json.dumps writes of it
Documents ==
    {[text |-> "{\"type\": \"user\", \"cwd\": \"/home/u/app\", \"timestamp\": "
               \o "\"2024-01-01T00:00:03Z\", \"message\": {\"content\": \"fix the login bug\"}}",
      json |-> Entry(Some("user"), Some("/home/u/app"), Some("2024-01-01T00:00:03Z"),
                     Some(StrContent("fix the login bug")))],
     [text |-> "{\"type\": \"user\", \"message\": {\"content\": [{\"type\": \"tool_result\", "
               \o "\"content\": \"ok\"}]}}",
      json |-> Entry(Some("user"), None, None, Some(BlockContent(<<ToolResultData("ok")>>)))],
     [text |-> "{\"type\": \"assistant\", \"timestamp\": \"2024-01-01T00:01:15Z\", \"message\": "
               \o "{\"content\": [{\"type\": \"text\", \"text\": \"Done.\"}, {\"type\": "
               \o "\"tool_use\", \"name\": \"Read\", \"input\": {\"file_path\": \"/a/b.py\"}}]}}",
      json |-> Entry(Some("assistant"), None, Some("2024-01-01T00:01:15Z"),
                     Some(BlockContent(<<TextData("Done."),
                                         ToolUseData("Read", "file_path" :> "/a/b.py")>>)))],
     [text |-> "{\"type\": \"progress\", \"cwd\": \"/tmp\"}",
      json |-> Entry(Some("progress"), Some("/tmp"), None, None)],
     [text |-> "{\"type\": \"system\", \"subtype\": \"init\", \"timestamp\": \"yesterday\"}",
      json |-> Entry(Some("system"), None, Some("yesterday"), None)],
     [text |-> "{}", json |-> Entry(None, None, None, None)],
     [text |-> "42", json |-> Scalar("number")],
     [text |-> "\"note\"", json |-> Scalar("string")],
     [text |-> "[1]", json |-> Scalar("array")],
     [text |-> "null", json |-> Scalar("null")]}

\* json.loads(s): Some of the document s is the text of, None where
\* json.loads raises JSONDecodeError (every text that is not a document)
json_loads(s) ==
    IF \E d \in Documents : d.text = s
    THEN Some((CHOOSE d \in Documents : d.text = s).json)
    ELSE None

\* ContentBlock.from_dict
from_dict(data) ==
    IF data.type = "text"
    THEN [type |-> "text", text |-> Some(IF data.text = None THEN "" ELSE data.text[1]),
          tool_use |-> None]
    ELSE IF data.type = "tool_use"
    THEN [type |-> "tool_use", text |-> None,
          tool_use |-> Some([name |-> IF data.name = None THEN "" ELSE data.name[1],
                             input |-> data.input])]
    ELSE IF data.type = "tool_result"
    THEN [type |-> "tool_result",
          text |-> Some(IF data.content = None THEN "" ELSE data.content[1]),
          tool_use |-> None]
    ELSE [type |-> data.type, text |-> None, tool_use |-> None]

\* the value of the decimal digit c
digitValue(c) == CHOOSE d \in 0..9 : ToString(d) = c

\* the timestamps datetime.fromisoformat reads in the model: minute and
\* second of the hour 0 of 2024-01-01, UTC
IsoPrefix == "2024-01-01T00:"
IsoLength == 25
isIso(s) ==
    /\ Len(s) = IsoLength
    /\ Upto(s, Len(IsoPrefix)) = IsoPrefix
    /\ At(s, 16) = ":" /\ From(s, 19) = "+00:00"
    /\ \A i \in {14, 15, 17, 18} : At(s, i) \in Digits
    /\ At(s, 14) \in {"0", "1", "2", "3", "4", "5"}
    /\ At(s, 17) \in {"0", "1", "2", "3", "4", "5"}

\* datetime.fromisoformat(ts_str.replace("Z", "+00:00")), and datetime.now()
\* where it raises ValueError
timestampAt(ts_str, now) ==
    With(replace(ts_str, "Z", "+00:00"), LAMBDA s :
        IF isIso(s)
        THEN [minute |-> 10 * digitValue(At(s, 14)) + digitValue(At(s, 15)),
              second |-> 10 * digitValue(At(s, 17)) + digitValue(At(s, 18))]
        ELSE now)

\* Turn.from_jsonl_entry of a JSON document, at the time now: Returned(None)
\* for an entry that is no turn, Returned(Some(turn)) for a turn, and Raised
\* where entry.get does not exist
from_jsonl_entry(entry, now) ==
    IF entry.kind # "object" THEN Raised("AttributeError")
    ELSE With(entry.object, LAMBDA e :
         With(IF e.type = None THEN "" ELSE e.type[1], LAMBDA entry_type :
         With(Some(timestampAt(IF e.timestamp = None THEN "" ELSE e.timestamp[1], now)),
              LAMBDA timestamp :
            IF entry_type \in {"file-history-snapshot", "progress"} THEN Returned(None)
            ELSE IF entry_type = "user"
            THEN With(IF e.content = None THEN StrContent("") ELSE e.content[1], LAMBDA content :
                    Returned(Some(
                        [role |-> "user", timestamp |-> timestamp,
                         content |-> IF content.str = None
                                     THEN BlockContent([i \in 1..Len(content.blocks) |->
                                                            from_dict(content.blocks[i])])
                                     ELSE content])))
            ELSE IF entry_type = "assistant"
            THEN With(IF e.content = None THEN BlockContent(<<>>) ELSE e.content[1],
                      LAMBDA content :
                    Returned(Some(
                        [role |-> "assistant", timestamp |-> timestamp,
                         content |-> IF content.str = None
                                     THEN BlockContent([i \in 1..Len(content.blocks) |->
                                                            from_dict(content.blocks[i])])
                                     ELSE BlockContent(<<TextBlock(content.str[1])>>)])))
            ELSE IF entry_type = "system"
            THEN Returned(Some([role |-> "system", timestamp |-> timestamp,
                                content |-> StrContent("")]))
            ELSE Returned(None))))

\* decode_path
decode_path(encoded) ==
    IF encoded = "" THEN ""
    ELSE IF startswith(encoded, "-") THEN replace(encoded, "-", "/")
    ELSE encoded

\* get_project_path_from_session of the lines of a file, from line i on:
\* Returned(Some(cwd)) of the first entry that has one, Returned(None) when
\* no entry has, and Raised where entry.get does not exist
RECURSIVE get_project_path_from_session(_, _)
get_project_path_from_session(f, i) ==
    IF i > Len(f) THEN Returned(None)
    ELSE With(json_loads(strip(f[i])), LAMBDA entry :
            IF entry = None THEN get_project_path_from_session(f, i + 1)
            ELSE IF entry[1].kind # "object" THEN Raised("AttributeError")
            ELSE IF truthy(entry[1].object.cwd) THEN Returned(entry[1].object.cwd)
            ELSE get_project_path_from_session(f, i + 1))

(***************************************************************************)
(* scripts/html_generator.py                                               *)
(***************************************************************************)
CODE_BLOCK_MAX_LINES == 25
CODE_BLOCK_HEAD_LINES == 8
CODE_BLOCK_TAIL_LINES == 5
PROSE_MAX_CHARS == 2000

\* html.escape(c) of one character, quotes included
escapeChar(c) ==
    IF c = "&" THEN "&amp;"
    ELSE IF c = "<" THEN "&lt;"
    ELSE IF c = ">" THEN "&gt;"
    ELSE IF c = "\"" THEN "&quot;"
    ELSE IF c = "'" THEN "&#x27;"
    ELSE c

html_escape(s) == IF s = "" THEN "" ELSE join([i \in 1..Len(s) |-> escapeChar(At(s, i - 1))], "")

format_code_block(code, lang, filename, max_lines, collapsible) ==
    With(splitOn(code, "\n"), LAMBDA lines :
    With(max_lines > 0 /\ Len(lines) > max_lines, LAMBDA is_truncated :
    With(IF lang # "" \/ filename # "" \/ is_truncated
         THEN "<div class=\"code-block-header\">"
              \o (IF lang # "" THEN "<span class=\"code-language\">" \o html_escape(lang) \o "</span>"
                  ELSE "")
              \o (IF filename # ""
                  THEN "<span class=\"code-filename\">" \o html_escape(filename) \o "</span>"
                  ELSE "")
              \o (IF is_truncated
                  THEN "<span class=\"code-lines\">(" \o ToString(Len(lines)) \o " lines)</span>"
                  ELSE "")
              \o "</div>"
         ELSE "", LAMBDA header :
        IF is_truncated /\ collapsible
        THEN "<div class=\"code-block collapsible\">\n            "
             \o header
             \o "\n            <pre><code>"
             \o html_escape(join(Slice(lines, 0, CODE_BLOCK_HEAD_LINES), "\n"))
             \o ("</code></pre>\n"
                 \o "            <div class=\"collapsible-toggle\" onclick=\"toggleCollapsible(this)\">\n"
                 \o "                <span class=\"toggle-label\">")
             \o "[... " \o ToString(Len(lines) - CODE_BLOCK_HEAD_LINES - CODE_BLOCK_TAIL_LINES)
             \o " more lines ...]"
             \o ("</span>\n"
                 \o "                <span class=\"toggle-icon\">&#9660;</span>\n"
                 \o "            </div>\n"
                 \o "            <div class=\"collapsible-content\">\n"
                 \o "                <pre><code>")
             \o html_escape(join(Slice(lines, CODE_BLOCK_HEAD_LINES, 0 - CODE_BLOCK_TAIL_LINES), "\n"))
             \o "</code></pre>\n            </div>\n            <pre><code>"
             \o html_escape(join(Slice(lines, 0 - CODE_BLOCK_TAIL_LINES, Len(lines)), "\n"))
             \o "</code></pre>\n        </div>"
        ELSE "<div class=\"code-block\">" \o header \o "<pre><code>" \o html_escape(code)
             \o "</code></pre></div>")))

\* s.rfind(sep, 0, hi): the greatest offset of sep that ends at or before hi, or -1
rfindStr(s, sep, hi) ==
    With({i \in 0..(Min(hi, Len(s)) - Len(sep)) : SubSeq(s, i + 1, i + Len(sep)) = sep},
         LAMBDA hits : IF hits = {} THEN 0 - 1 ELSE Greatest(hits))

\* format_response_content: content cut at PROSE_MAX_CHARS characters
cutContent(content) ==
    With(rfindStr(content, "\n\n", PROSE_MAX_CHARS), LAMBDA paragraph_end :
    With(IF paragraph_end # 0 - 1 THEN paragraph_end
         ELSE rfindStr(content, ". ", PROSE_MAX_CHARS), LAMBDA found :
    With(IF found # 0 - 1 THEN found ELSE PROSE_MAX_CHARS, LAMBDA break_point :
        Upto(content, break_point) \o "\n\n[... " \o ToString(Len(content) - break_point)
        \o " more characters truncated ...]")))

\* [\s\S]: any character
AnyChar == NotCls({})

\* r'```(\w*)\n?([\s\S]*?)```'
code_block_pattern ==
    Cat(<<Lit(Backtick \o Backtick \o Backtick), Grp(1, Star(Word)), Opt(Lit("\n")),
          Grp(2, LazyStar(AnyChar)), Lit(Backtick \o Backtick \o Backtick)>>)

\* r'`([^`]+)`'
inline_code_pattern == Cat(<<Lit(Backtick), Grp(1, Plus(NotCls({Backtick}))), Lit(Backtick)>>)

\* r'(<div class="code-block">[\s\S]*?</div>)'
code_div_pattern ==
    Cat(<<Lit("<div class=\"code-block\">"), LazyStar(AnyChar), Lit("</div>")>>)

\* r'\n\n+'
paragraph_pattern == Cat(<<Lit("\n"), Plus(Lit("\n"))>>)

\* The character "\x00" of the placeholders.  It cannot be written in a string
\* here; "\f" stands for it: html.escape leaves both alone, neither is a word
\* character, and the contents tried hold neither.
NUL == "\f"

\* f'\x00{kind}_{i}\x00'
placeholder(kind, i) == NUL \o kind \o "_" \o ToString(i) \o NUL

\* re.sub(pattern, extract, s) where extract returns the next placeholder
RECURSIVE withPlaceholders(_, _, _, _, _)
withPlaceholders(s, ms, k, from, kind) ==
    IF k > Len(ms) THEN From(s, from)
    ELSE Slice(s, from, ms[k].start) \o placeholder(kind, k - 1)
         \o withPlaceholders(s, ms, k + 1, ms[k].end, kind)

\* for i, block in enumerate(blocks): result = result.replace(placeholder, block)
RECURSIVE restored(_, _, _, _)
restored(s, blocks, k, kind) ==
    IF k > Len(blocks) THEN s
    ELSE restored(replace(s, placeholder(kind, k - 1), blocks[k]), blocks, k + 1, kind)

\* re.split(pattern, s) for a pattern that is one group: the pieces and the
\* matches between them
RECURSIVE piecesAndMatches(_, _, _)
piecesAndMatches(s, ms, from) ==
    IF Len(ms) = 0 THEN <<From(s, from)>>
    ELSE <<Slice(s, from, Head(ms).start), Slice(s, Head(ms).start, Head(ms).end)>>
         \o piecesAndMatches(s, Tail(ms), Head(ms).end)

\* the paragraphs format_response_content makes of a part that is no code block
paragraphsOf(part) ==
    With(SelectSeq(reSplit(paragraph_pattern, Subject(strip(part))), LAMBDA p : strip(p) # ""),
         LAMBDA ps : [i \in 1..Len(ps) |-> "<p>" \o replace(ps[i], "\n", "<br>\n") \o "</p>"])

\* the loop of format_response_content over the parts
RECURSIVE formattedParts(_, _)
formattedParts(parts, k) ==
    IF k > Len(parts) THEN <<>>
    ELSE (IF startswith(parts[k], "<div class=\"code-block\">") THEN <<parts[k]>>
          ELSE paragraphsOf(parts[k]))
         \o formattedParts(parts, k + 1)

\* the code_blocks and the inline_codes of format_response_content
codeBlocks(content, fences) ==
    [k \in 1..Len(fences) |->
        format_code_block(rstrip(group(Subject(content), fences[k], 2)),
                          group(Subject(content), fences[k], 1),
                          "", CODE_BLOCK_MAX_LINES, TRUE)]
inlineCodes(fenced, ticks) ==
    [k \in 1..Len(ticks) |->
        "<code class=\"inline-code\">" \o html_escape(group(Subject(fenced), ticks[k], 1))
        \o "</code>"]

format_response_content(content0, truncate_prose_flag) ==
    IF content0 = "" THEN ""
    ELSE
    With(IF truncate_prose_flag /\ Len(content0) > PROSE_MAX_CHARS THEN cutContent(content0)
         ELSE content0, LAMBDA content :
    With(finditer(code_block_pattern, Subject(content)), LAMBDA fences :
    With(withPlaceholders(content, fences, 1, 0, "CODE_BLOCK"), LAMBDA fenced :
    With(finditer(inline_code_pattern, Subject(fenced)), LAMBDA ticks :
    With(html_escape(withPlaceholders(fenced, ticks, 1, 0, "INLINE_CODE")), LAMBDA escaped :
    With(restored(restored(escaped, codeBlocks(content, fences), 1, "CODE_BLOCK"),
                  inlineCodes(fenced, ticks), 1, "INLINE_CODE"), LAMBDA html :
        join(formattedParts(
                piecesAndMatches(html, finditer(code_div_pattern, Subject(html)), 0), 1),
             "\n")))))))

\* A value of a turn dict that is a str (Str) or a dict (Dict)
Str(s) == [type |-> "str", str |-> s, dict |-> <<>>]
Dict(d) == [type |-> "dict", str |-> "", dict |-> d]

\* The loops of generate_turn_slide over tools_used (unique FALSE) and over
\* tools (unique TRUE): acc holds tool_names and tool_descriptions.
RECURSIVE toolNames(_, _, _, _)
toolNames(tools, k, unique, acc) ==
    IF k > Len(tools) THEN acc
    ELSE With(IF tools[k].type = "str" THEN tools[k].str
              ELSE getDefault(tools[k].dict, "name", ""), LAMBDA name :
         With(IF tools[k].type = "dict" THEN getDefault(tools[k].dict, "description", "") ELSE "",
              LAMBDA desc :
            IF (tools[k].type = "dict" /\ name = "")
               \/ (unique /\ \E j \in 1..Len(acc.names) : acc.names[j] = name)
            THEN toolNames(tools, k + 1, unique, acc)
            ELSE toolNames(tools, k + 1, unique,
                    [names |-> Append(acc.names, name),
                     descriptions |-> IF desc # "" THEN (name :> desc) @@ acc.descriptions
                                      ELSE acc.descriptions])))

\* one badge of the tools section
badge(tool, descriptions) ==
    With(getDefault(descriptions, tool, ""), LAMBDA desc :
        IF desc # ""
        THEN "<span class=\"tool-badge\" title=\"" \o html_escape(desc) \o "\">"
             \o html_escape(tool) \o "</span>"
        ELSE "<span class=\"tool-badge\">" \o html_escape(tool) \o "</span>")

\* one item of the files section
fileItem(file_info) ==
    With(IF file_info.type = "dict" THEN getDefault(file_info.dict, "path", "")
         ELSE file_info.str, LAMBDA path :
    With(IF file_info.type = "dict" THEN getDefault(file_info.dict, "action", "modified")
         ELSE "modified", LAMBDA action :
        ("\n                <div class=\"file-item\">\n"
         \o "                    <span class=\"file-icon\">&#128196;</span>\n"
         \o "                    <span>")
        \o html_escape(path)
        \o "</span>\n                    <span class=\"file-action "
        \o action \o "\">" \o action
        \o "</span>\n                </div>\n            "))

generate_turn_slide(turn, index, total) ==
    With(getDefault(turn, "role", ""), LAMBDA role :
    With(getDefault(turn, "content", ""), LAMBDA content :
    With(IF role = "user" /\ content # "" /\ getDefault(turn, "prompt", "") = "" THEN content
         ELSE getDefault(turn, "prompt", ""), LAMBDA prompt :
    With(IF ~(role = "user" /\ content # "" /\ getDefault(turn, "prompt", "") = "")
            /\ role = "assistant" /\ content # "" /\ getDefault(turn, "response", "") = ""
         THEN content ELSE getDefault(turn, "response", ""), LAMBDA reply :
    With(getDefault(turn, "title", ""), LAMBDA slide_title :
    With(toolNames(getDefault(turn, "tools", <<>>), 1, TRUE,
            toolNames(getDefault(turn, "tools_used", <<>>), 1, FALSE,
                      [names |-> <<>>, descriptions |-> <<>>])), LAMBDA tools :
    With(getDefault(turn, "files_modified", <<>>), LAMBDA files_modified :
    With(IF reply # "" THEN format_response_content(reply, TRUE) ELSE "",
         LAMBDA formatted_response :
        ("\n    <div class=\"slide\">\n        <div class=\"slide-content\">\n"
         \o "            <div class=\"slide-header\">\n"
         \o "                <span class=\"turn-label\">")
        \o (IF slide_title # ""
            THEN "Turn " \o ToString(index) \o ": " \o html_escape(slide_title)
            ELSE "Turn " \o ToString(index))
        \o "</span>\n                <span class=\"slide-number\">"
        \o ToString(index) \o " of " \o ToString(total)
        \o "</span>\n            </div>\n\n            "
        \o (IF prompt # ""
            THEN ("\n            <div class=\"user-prompt\">\n"
                  \o "                <div class=\"user-prompt-label\">User Prompt</div>\n"
                  \o "                <div class=\"user-prompt-text\">")
                 \o html_escape(prompt)
                 \o "</div>\n            </div>\n        "
            ELSE "")
        \o "\n\n            "
        \o (IF Len(tools.names) > 0
            THEN ("\n        <div class=\"tools-section\">\n"
                  \o "            <div class=\"tools-label\">Tools Used</div>\n"
                  \o "            <div class=\"tool-badges\">")
                 \o join([k \in 1..Len(tools.names) |-> badge(tools.names[k], tools.descriptions)], "")
                 \o "</div>\n        </div>\n        "
            ELSE "")
        \o "\n\n            "
        \o (IF formatted_response # ""
            THEN ("\n            <div class=\"response-section\">\n"
                  \o "                <div class=\"response-label\">Response</div>\n"
                  \o "                <div class=\"response-content\">\n"
                  \o "                    ")
                 \o formatted_response
                 \o "\n                </div>\n            </div>\n        "
            ELSE "")
        \o "\n\n            "
        \o (IF Len(files_modified) > 0
            THEN ("\n        <div class=\"files-section\">\n"
                  \o "            <div class=\"tools-label\">Files Modified</div>\n"
                  \o "            ")
                 \o join([k \in 1..Len(files_modified) |-> fileItem(files_modified[k])], "")
                 \o "\n        </div>\n        "
            ELSE "")
        \o "\n        </div>\n    </div>\n    "))))))))

\* the loop of _group_conversation_turns over the turns, from turn i on:
\* grouped is the list of the groups closed so far, current_group None or the
\* group that is open.  A tool of a turn of session_to_dict is a dict.
RECURSIVE groupedFrom(_, _, _, _)
groupedFrom(turns, i, grouped, current_group) ==
    IF i > Len(turns)
    THEN IF current_group # None THEN Append(grouped, current_group[1]) ELSE grouped
    ELSE With(getDefault(turns[i], "role", ""), LAMBDA role :
        IF role = "user"
        THEN groupedFrom(turns, i + 1,
                 IF current_group # None THEN Append(grouped, current_group[1]) ELSE grouped,
                 Some([prompt |-> getDefault(turns[i], "content", ""),
                       title |-> getDefault(turns[i], "title", ""),
                       response |-> "",
                       tools |-> <<>>, tools_used |-> <<>>, files_modified |-> <<>>,
                       timestamp |-> getDefault(turns[i], "timestamp", None)]))
        ELSE IF role = "assistant" /\ current_group # None
        THEN groupedFrom(turns, i + 1, grouped,
                 Some([current_group[1] EXCEPT
                          !.response = getDefault(turns[i], "content", ""),
                          !.tools = @ \o [k \in 1..Len(getDefault(turns[i], "tools", <<>>)) |->
                                             Dict(turns[i].tools[k])],
                          !.tools_used = @ \o getDefault(turns[i], "tools_used", <<>>),
                          !.files_modified = @ \o getDefault(turns[i], "files_modified", <<>>)]))
        ELSE groupedFrom(turns, i + 1, grouped, current_group))

\* _group_conversation_turns
_group_conversation_turns(turns) ==
    IF Len(turns) = 0 THEN <<>>
    ELSE IF ~\E i \in 1..Len(turns) : getDefault(turns[i], "role", "") # "" THEN turns
    ELSE groupedFrom(turns, 1, <<>>, None)

\* generate_html(session): of the document it returns, the grouped turns, the
\* turn slides in their order, and total_slides, the number of all slides
\* (the title slide, the turn slides and, when there is a turn slide, the
\* summary slide).  The title slide, the summary slide and the template around
\* the slides show no prompt and no response.
generate_html(session_data) ==
    With(_group_conversation_turns(getDefault(session_data, "turns", <<>>)),
         LAMBDA grouped_turns :
        [grouped_turns |-> grouped_turns,
         turn_slides |-> [i \in 1..Len(grouped_turns) |->
                             generate_turn_slide(grouped_turns[i], i, Len(grouped_turns))],
         total_slides |-> 1 + Len(grouped_turns) + (IF Len(grouped_turns) > 0 THEN 1 ELSE 0)])

(***************************************************************************)
(* The calls.  A state is one call of one function: its arguments, the     *)
(* locals it has assigned so far, and its outcome.                         *)
(***************************************************************************)
VARIABLES
    pc,          \* position of the call in flight: "call", "done", "again"
    call,        \* the function called
    config,      \* the TruncationConfig handed to the call
    text,        \* the str argument (prompt, text, code, output)
    language,    \* the language argument of truncate_code_block ("" for None)
    items,       \* the items argument of truncate_list
    prefix,      \* the prefix argument of truncate_list
    tool_name,   \* the tool_name argument of format_tool_use
    parameters,  \* the parameters argument of format_tool_use
    turn_number, \* the turn_number argument of generate_turn_title
    cleaned,     \* generate_turn_title's local cleaned
    gerund,      \* generate_turn_title's local gerund (None until assigned)
    remaining,   \* generate_turn_title's local remaining
    subject,     \* generate_turn_title's local subject (None until assigned)
    result,      \* the value the call returned
    raised,      \* the exception the call raised, "" when it returned
    again,       \* the value returned by the call applied to its own result
    response,    \* what requests.post came to in generate_title_ollama
    session,     \* the session argument of session_to_dict
    turn_dict,   \* the turn argument of generate_turn_slide
    turn_index,  \* the turn_index argument of generate_turn_slide
    total_turns, \* the total_turns argument of generate_turn_slide
    file,        \* the lines of the file at file_path, for extract_turns
    line_num,    \* parse_jsonl's line_num: the lines of the file read so far
    currentSlide, \* the navigation script's currentSlide
    slides,      \* per slide of the document, whether its classList holds 'active'
    counter,     \* counter.textContent
    progress,    \* progress.style.width, the percentage as <<numerator, denominator>>
    prevBtn,     \* prevBtn.disabled
    nextBtn,     \* nextBtn.disabled
    session_dict, \* main's session_dict: what session_to_dict returned
    html_content, \* main's html_content: what generate_html returned
    max_pos      \* the max_pos argument of find_sentence_boundary

vars == <<pc, call, config, text, language, items, prefix, tool_name, parameters,
          turn_number, cleaned, gerund, remaining, subject, result, raised, again,
          response, session, turn_dict, turn_index, total_turns,
          file, line_num, currentSlide, slides, counter, progress, prevBtn, nextBtn,
          session_dict, html_content, max_pos>>

\* the variables of parse_jsonl, and those of the navigation script
reading == <<file, line_num>>
browser == <<currentSlide, slides, counter, progress, prevBtn, nextBtn>>
\* the locals of main
converting == <<session_dict, html_content>>

\* a session of no turns
NoSession == [session_id |-> "", project_path |-> "", turns |-> <<>>]

\* the entry of a call of fn: nothing assigned or returned yet
Entered(fn) ==
    /\ pc = "call" /\ call = fn
    /\ cleaned = "" /\ gerund = None /\ remaining = "" /\ subject = None
    /\ result = "" /\ raised = "" /\ again = ""
    /\ response = Raising("")
    /\ file = <<>> /\ line_num = 0
    /\ currentSlide = 0 /\ slides = <<>> /\ counter = "" /\ progress = <<0, 1>>
    /\ prevBtn = FALSE /\ nextBtn = FALSE
    /\ session_dict = <<>> /\ html_content = <<>>
    /\ max_pos = 0

\* the state at the entry of a call: the arguments, nothing assigned yet
EnterWith(fn, cfg, s, lang, xs, pre, tool, params, n, sess) ==
    /\ Entered(fn)
    /\ config = cfg /\ text = s /\ language = lang
    /\ items = xs /\ prefix = pre
    /\ tool_name = tool /\ parameters = params
    /\ turn_number = n
    /\ session = sess
    /\ turn_dict = <<>> /\ turn_index = 0 /\ total_turns = 0

Enter(fn, cfg, s, lang, xs, pre, tool, params, n) ==
    EnterWith(fn, cfg, s, lang, xs, pre, tool, params, n, NoSession)

arguments ==
    <<call, config, text, language, items, prefix, tool_name, parameters, turn_number, session,
      turn_dict, turn_index, total_turns, max_pos>>
locals == <<cleaned, gerund, remaining, subject>>

\* s repeated n times
Repeat(s, n) == join([i \in 1..n |-> s], "")

\* the most spaces put before and after an argument
MaxPad == 2

\* the texts of S with 0..MaxPad spaces before and after
Padded(S) == {Repeat(" ", a) \o s \o Repeat(" ", b) : s \in S, a \in 0..MaxPad, b \in 0..MaxPad}

(***************************************************************************)
(* generate_turn_title(prompt, turn_number)                                *)
(***************************************************************************)
\* greetings and politeness a request may open with
Openings ==
    {"", "Please ", "Hey Claude, can you ", "ok, now ",
     "Okay, so please ", "Please hey Claude, "}

\* requests: the documented examples, two-word verbs, and verb-less text
Requests ==
    {"create a login form?", "fix the authentication bug",
     "Add tests for the API endpoints", "implement user profile feature",
     "refactor the database module", "Update 'config.json' with new settings",
     "review src/auth/login.py", "optimize the search algorithm",
     "debug memory leak issue", "deploy to production",
     "set up the CI pipeline", "clean up old logs", "Set Up docker", "SET UP",
     "asdfghjkl", "the login page", "software design notes",
     "notes on 'plan b' and src/a.py", "add tests for src/auth/login.py"}

\* prompts with nothing to extract, noise, and odd quoting
EdgePrompts ==
    {"", " ", "\t\n", "...", "?!", "---", "\" \"", "' '", "''", "the", "to",
     "and or but", "so", "please", "can you", "fix", "Fix it", "update ' '",
     "fix 'src/a  b' now", "fix ' ' in src/a.py", "sometimes", "sorry",
     "... wait", "404 not found", "Warning only", "GET /api/users",
     "Error: something broke. Please fix the login page.",
     "[INFO] started\ncan you check the logs",
     "run " \o Backtick \o "npm test" \o Backtick \o " please"}

TitlePrompts == {o \o r : o \in Openings, r \in Requests} \cup EdgePrompts

\* the greatest turn number
MaxTurn == 6
TurnNumbers == {0 - 1, 0, 1, MaxTurn}

InitTitle ==
    \E p \in TitlePrompts, n \in TurnNumbers :
        Enter("generate_turn_title", DefaultConfig, p, "", <<>>, "", "", <<>>, n)

\* generate_turn_title: the locals as far as the call assigns them, and the title
GenerateTurnTitle ==
    /\ pc = "call" /\ call = "generate_turn_title"
    /\ IF text = "" \/ strip(text) = "" THEN UNCHANGED locals
       ELSE \E c \in {_clean_prompt(text)} :
                /\ cleaned' = c
                /\ IF c = "" THEN UNCHANGED <<gerund, remaining, subject>>
                   ELSE \E found \in {_find_action_verb(c)} :
                            /\ gerund' = found[1]
                            /\ remaining' = found[2]
                            /\ subject' = extractSubject(c, found[1], found[2])
    /\ result' = generate_turn_title(text, turn_number)
    /\ pc' = "done"
    /\ UNCHANGED <<arguments, reading, browser, converting, raised, again, response>>

NextTitle == GenerateTurnTitle
SpecTitle == InitTitle /\ [][NextTitle]_vars

(***************************************************************************)
(* truncate_user_prompt(prompt, config)                                    *)
(***************************************************************************)
\* the greatest prompt_max_chars tried next to the default
MaxPromptChars == 12
PromptLimits == (0 - 2)..MaxPromptChars

\* prompts with sentence ends, clause breaks, spaces only, and no break at all
PromptTexts ==
    {"", "short", "Fix it. Then go on", "Wait! What? No way",
     "one, two; three: four five", "abcdefghijklmnopqrstuvwxyz",
     "a b c d e f g h i j k", "Done.   And more text", "tabs\tand\nnewlines here"}

\* prompts longer than the default limit
LongPrompts == {Repeat("word ", 100), Repeat("A sentence here. ", 20)}

InitPrompt ==
    \/ \E p \in Padded(PromptTexts), m \in PromptLimits :
          Enter("truncate_user_prompt", [DefaultConfig EXCEPT !.prompt_max_chars = m],
                p, "", <<>>, "", "", <<>>, 0)
    \/ \E p \in Padded(LongPrompts) :
          Enter("truncate_user_prompt", DefaultConfig, p, "", <<>>, "", "", <<>>, 0)

\* the return of a truncator: its value, no exception
Return(value) ==
    /\ result' = value
    /\ pc' = "done"
    /\ UNCHANGED <<arguments, reading, browser, converting, locals, raised, again, response>>

TruncateUserPrompt ==
    /\ pc = "call" /\ call = "truncate_user_prompt"
    /\ Return(truncate_user_prompt(text, config))

NextPrompt == TruncateUserPrompt
SpecPrompt == InitPrompt /\ [][NextPrompt]_vars

(***************************************************************************)
(* truncate_code_block(code, language, config), and the call on its result *)
(***************************************************************************)
\* the greatest line count and thresholds tried next to the defaults
MaxLines == 7
MaxShort == 3
MaxLong == 5
MaxHead == 2
MaxTail == 2

\* the code of n lines "l1" .. "ln"
CodeOf(n) == join([i \in 1..n |-> "l" \o ToString(i)], "\n")

\* code with and without a trailing newline
Codes == {CodeOf(n) \o t : n \in 0..MaxLines, t \in {"", "\n"}}

\* code around the default thresholds
DefaultCodes == {CodeOf(n) : n \in {1, 15, 16, 40, 41}}

Languages == {"", "python", "html", "css"}

CodeConfigs ==
    {[DefaultConfig EXCEPT !.code_short_threshold = s, !.code_long_threshold = l,
                           !.code_head_lines = h, !.code_tail_lines = t] :
        s \in 0..MaxShort, l \in 0..MaxLong, h \in (0 - 1)..MaxHead, t \in (0 - 1)..MaxTail}

InitCode ==
    \/ \E c \in Codes, lang \in Languages, cfg \in CodeConfigs :
          Enter("truncate_code_block", cfg, c, lang, <<>>, "", "", <<>>, 0)
    \/ \E c \in DefaultCodes, lang \in Languages :
          Enter("truncate_code_block", DefaultConfig, c, lang, <<>>, "", "", <<>>, 0)

TruncateCodeBlock ==
    /\ pc = "call" /\ call = "truncate_code_block"
    /\ Return(truncate_code_block(text, language, config))

\* truncate_code_block(result, language, config): the call on its own result
TruncateCodeBlockAgain ==
    /\ pc = "done" /\ call = "truncate_code_block"
    /\ again' = truncate_code_block(result, language, config)
    /\ pc' = "again"
    /\ UNCHANGED <<arguments, reading, browser, converting, locals, result, raised, response>>

NextCode == TruncateCodeBlock \/ TruncateCodeBlockAgain
SpecCode == InitCode /\ [][NextCode]_vars

(***************************************************************************)
(* The five truncators and format_tool_use on degenerate input.            *)
(***************************************************************************)
\* thresholds that are negative, 0 and small
Thresholds == {0 - 1, 0, 1}

DegenerateConfigs ==
    {[prompt_max_chars |-> a, prose_max_sentences |-> a,
      code_short_threshold |-> a, code_long_threshold |-> b,
      code_head_lines |-> b, code_tail_lines |-> a,
      terminal_max_lines |-> a, terminal_include_errors |-> e,
      list_max_items |-> b] : a \in Thresholds, b \in Thresholds, e \in BOOLEAN}

Texts ==
    {"", " ", "\n", "a", "One. Two! Three? Four", "l1\nl2\nl3\nl4",
     "ok\nError: failed\nmore\nWarning\nend\n"}

ItemLists == {<<>>, <<"">>, <<"a">>, <<"a", "b", "c">>}
Prefixes == {"", "- "}

Tools ==
    {"Read", "Write", "Edit", "Bash", "Grep", "Glob", "WebFetch", "WebSearch",
     "Task", "mcp__server__do_it", "mcp__x", "Custom_Tool-name", ""}

ParameterKeys ==
    {"file_path", "path", "file", "command", "cmd", "pattern", "query", "url",
     "description", "prompt"}

\* a parameter value: null, or a str
ParameterValues ==
    {None, Some(""), Some("src/app/main.py"),
     Some("https://example.com/a/very/long/path/to/some/page.html"),
     Some(Repeat("grep -rn pattern ", 4))}

\* the mappings with no key and with one key
ParameterMaps == {<<>>} \cup {[k \in {key} |-> v] : key \in ParameterKeys, v \in ParameterValues}

InitCalls ==
    \/ \E fn \in {"truncate_user_prompt", "truncate_prose", "truncate_terminal_output"},
          s \in Texts, cfg \in DegenerateConfigs :
          Enter(fn, cfg, s, "", <<>>, "", "", <<>>, 0)
    \/ \E s \in Texts, lang \in Languages, cfg \in DegenerateConfigs :
          Enter("truncate_code_block", cfg, s, lang, <<>>, "", "", <<>>, 0)
    \/ \E xs \in ItemLists, pre \in Prefixes, cfg \in DegenerateConfigs :
          Enter("truncate_list", cfg, "", "", xs, pre, "", <<>>, 0)
    \/ \E tool \in Tools, params \in ParameterMaps :
          Enter("format_tool_use", DefaultConfig, "", "", <<>>, "", tool, params, 0)

TruncateProse ==
    /\ pc = "call" /\ call = "truncate_prose"
    /\ Return(truncate_prose(text, config))

TruncateTerminalOutput ==
    /\ pc = "call" /\ call = "truncate_terminal_output"
    /\ Return(truncate_terminal_output(text, config))

TruncateList ==
    /\ pc = "call" /\ call = "truncate_list"
    /\ Return(truncate_list(items, config, prefix))

\* format_tool_use: the description returned, or the exception raised
FormatToolUse ==
    /\ pc = "call" /\ call = "format_tool_use"
    /\ \E outcome \in {format_tool_use(tool_name, parameters)} :
          /\ result' = outcome.value
          /\ raised' = outcome.raised
    /\ pc' = "done"
    /\ UNCHANGED <<arguments, reading, browser, converting, locals, again, response>>

NextCalls ==
    \/ TruncateUserPrompt
    \/ TruncateProse
    \/ TruncateCodeBlock
    \/ TruncateTerminalOutput
    \/ TruncateList
    \/ FormatToolUse
SpecCalls == InitCalls /\ [][NextCalls]_vars

(***************************************************************************)
(* truncate_terminal_output(output, config)                                *)
(***************************************************************************)
\* the most lines of an output and the greatest terminal_max_lines
MaxOutputLines == 4
MaxTerminalLines == 3

\* the lines an output is made of: plain lines and error lines
OutputLines == {"ok", "Error: boom", "warning: slow", "done"}

\* the sequences over S of length at most n
SeqsUpTo(S, n) == UNION {[1..k -> S] : k \in 0..n}

Outputs == {join(ls, "\n") : ls \in SeqsUpTo(OutputLines, MaxOutputLines)}

InitTerminal ==
    \E out \in Outputs, m \in 0..MaxTerminalLines, e \in BOOLEAN :
        Enter("truncate_terminal_output",
              [DefaultConfig EXCEPT !.terminal_max_lines = m, !.terminal_include_errors = e],
              out, "", <<>>, "", "", <<>>, 0)

NextTerminal == TruncateTerminalOutput
SpecTerminal == InitTerminal /\ [][NextTerminal]_vars

(***************************************************************************)
(* truncate_list(items, config, prefix)                                    *)
(***************************************************************************)
\* the most items of a list and the greatest list_max_items
MaxItems == 4
MaxListItems == 3

Lists == SeqsUpTo({"a", "b c"}, MaxItems) \cup {<<"a", "b", "c", "d", "e", "f">>}

InitList ==
    \E xs \in Lists, pre \in Prefixes, m \in 0..MaxListItems :
        Enter("truncate_list", [DefaultConfig EXCEPT !.list_max_items = m],
              "", "", xs, pre, "", <<>>, 0)

NextList == TruncateList
SpecList == InitList /\ [][NextList]_vars

(***************************************************************************)
(* truncate_prose(text, config)                                            *)
(***************************************************************************)
\* the greatest prose_max_sentences
MaxSentences == 3

\* prose of 0 to 4 sentences, with runs of punctuation and an unfinished end
ProseTexts ==
    {"", "No end", "One.", "One. Two", "One. Two!", "Wait... What?! Yes.",
     "A. B? C! D.", "e.g. this. And that", "First.\nSecond.\n\nThird and more"}

InitProse ==
    \E t \in Padded(ProseTexts), m \in 0..MaxSentences :
        Enter("truncate_prose", [DefaultConfig EXCEPT !.prose_max_sentences = m],
              t, "", <<>>, "", "", <<>>, 0)

NextProse == TruncateProse
SpecProse == InitProse /\ [][NextProse]_vars

(***************************************************************************)
(* generate_continued_title(base_title), and the call on its result        *)
(***************************************************************************)
BaseTitles ==
    {"", "Turn 5", "Fixing Authentication Bug", "(continued)", "continued",
     "A (continued) B", "Turn 5 (Continued)", "x"}

BaseEndings == {"", " ", "(continued)", " (continued)", " (continued) ", " (continued)."}

InitContinued ==
    \E b \in BaseTitles, e \in BaseEndings :
        Enter("generate_continued_title", DefaultConfig, b \o e, "", <<>>, "", "", <<>>, 0)

GenerateContinuedTitle ==
    /\ pc = "call" /\ call = "generate_continued_title"
    /\ Return(generate_continued_title(text))

\* generate_continued_title(result): the call on its own result
GenerateContinuedTitleAgain ==
    /\ pc = "done" /\ call = "generate_continued_title"
    /\ again' = generate_continued_title(result)
    /\ pc' = "again"
    /\ UNCHANGED <<arguments, reading, browser, converting, locals, result, raised, response>>

NextContinued == GenerateContinuedTitle \/ GenerateContinuedTitleAgain
SpecContinued == InitContinued /\ [][NextContinued]_vars

(***************************************************************************)
(* generate_title_ollama(prompt, turn_number), whatever the network does   *)
(***************************************************************************)
\* what the model answers in the "response" field
ModelAnswers ==
    {"", "Creating Login Form", "  Fixing Database Bug\n", "Done", "Fixing.",
     "One two three four five six seven", "a b c d e f", "\"Creating REST API\"",
     "Fixing Bug .", "' Adding Tests '", "! ?"}

\* the greatest HTTP status next to 200
MaxStatus == 201
Statuses == {200, MaxStatus}

Replies ==
    {Raising(e) : e \in {"ImportError", "ConnectionError", "Timeout"}}
    \cup {Replying(st, k, <<>>) : st \in Statuses, k \in {"invalid", "array", "object"}}
    \cup {Replying(st, "object", [key \in {"response"} |-> v]) :
            st \in Statuses, v \in {None} \cup {Some(a) : a \in ModelAnswers}}

OllamaPrompts == {"", "fix the broken login", "Please hey Claude, add tests", "..."}

InitOllama ==
    \E p \in OllamaPrompts, n \in {1, MaxTurn} :
        Enter("generate_title_ollama", DefaultConfig, p, "", <<>>, "", "", <<>>, n)

GenerateTitleOllama ==
    /\ pc = "call" /\ call = "generate_title_ollama"
    /\ \E reply \in Replies :
          /\ response' = reply
          /\ result' = generate_title_ollama(text, turn_number, reply)
    /\ pc' = "done"
    /\ UNCHANGED <<arguments, reading, browser, converting, locals, raised, again>>

NextOllama == GenerateTitleOllama
SpecOllama == InitOllama /\ [][NextOllama]_vars

(***************************************************************************)
(* session_to_dict(session)                                                *)
(***************************************************************************)
\* the most turns of a session
MaxTurns == 3

At0(sec) == Some([minute |-> 0, second |-> sec])

\* a user prompt, tool results handed back, and assistant turns with and
\* without tool uses
SessionTurns ==
    {[role |-> "user", content |-> StrContent("fix the login bug"), timestamp |-> At0(0)],
     [role |-> "user", content |-> BlockContent(<<TextBlock("Please add tests")>>),
      timestamp |-> None],
     [role |-> "user", content |-> BlockContent(<<ToolResultBlock("ok")>>), timestamp |-> At0(7)],
     [role |-> "assistant", content |-> StrContent("Sure."), timestamp |-> At0(12)],
     [role |-> "assistant", timestamp |-> At0(5),
      content |-> BlockContent(<<TextBlock("Done."),
                                 ToolUseBlock("Read", [k \in {"file_path"} |-> "/a/b.py"])>>)],
     [role |-> "assistant", timestamp |-> None,
      content |-> BlockContent(<<ToolUseBlock("Bash", [k \in {"command"} |-> "npm test"]),
                                 ToolUseBlock("Bash", [k \in {"description"} |-> "Run tests"]),
                                 ToolUseBlock("Task", <<>>)>>)]}

Sessions ==
    {[session_id |-> "abc123", project_path |-> "/home/u/app", turns |-> ts] :
        ts \in SeqsUpTo(SessionTurns, MaxTurns)}

InitSession ==
    \E sess \in Sessions :
        EnterWith("session_to_dict", DefaultConfig, "", "", <<>>, "", "", <<>>, 0, sess)

SessionToDict ==
    /\ pc = "call" /\ call = "session_to_dict"
    /\ Return(session_to_dict(session))

NextSession == SessionToDict
SpecSession == InitSession /\ [][NextSession]_vars

(***************************************************************************)
(* generate_turn_slide(turn, turn_index, total_turns)                      *)
(***************************************************************************)
\* the greatest turn_index and total_turns
MaxSlides == 2

\* the dict that holds v under key k, empty when v is None
field(k, v) == IF v = None THEN <<>> ELSE (k :> v[1])

\* texts of a session with the characters HTML gives a meaning
SlideTexts == {None, Some("fix a<i>b &z")}
SlideResponses ==
    {None, Some("Done."), Some("Use " \o Backtick \o "x<i>" \o Backtick \o " &z.\n\nThen <i>"),
     Some("See:\n" \o Backtick \o Backtick \o Backtick \o "py\nif a<i> &z\n"
          \o Backtick \o Backtick \o Backtick)}
SlideTools ==
    {None, Some(<<Str("Read <i>"), Str("Bash")>>),
     Some(<<Dict(("name" :> "Bash") @@ ("description" :> "run \"<i>\" &z"))>>)}
SlideFiles ==
    {None, Some(<<Str("a<i>.py")>>),
     Some(<<Dict(("path" :> "b&z.py") @@ ("action" :> "created"))>>),
     Some(<<Dict(("path" :> "c.py") @@ ("action" :> "<i>created</i>"))>>)}
SlideRoles == {None, Some("user"), Some("assistant")}

TurnDicts ==
    {field("prompt", p) @@ field("response", r) @@ field("title", t)
     @@ field("tools_used", u) @@ field("files_modified", f)
     @@ field("role", ro) @@ field("content", IF ro = None THEN None ELSE Some("more <i>")) :
        p \in SlideTexts, r \in SlideResponses, t \in SlideTexts, u \in SlideTools,
        f \in SlideFiles, ro \in SlideRoles}

InitSlide ==
    \E d \in TurnDicts, i \in {1, MaxSlides} :
        /\ Entered("generate_turn_slide")
        /\ config = DefaultConfig /\ text = "" /\ language = ""
        /\ items = <<>> /\ prefix = ""
        /\ tool_name = "" /\ parameters = <<>>
        /\ turn_number = 0
        /\ session = NoSession
        /\ turn_dict = d /\ turn_index = i /\ total_turns = MaxSlides

GenerateTurnSlide ==
    /\ pc = "call" /\ call = "generate_turn_slide"
    /\ Return(generate_turn_slide(turn_dict, turn_index, total_turns))

NextSlide == GenerateTurnSlide
SpecSlide == InitSlide /\ [][NextSlide]_vars

(***************************************************************************)
(* extract_turns(file_path): the lines of the file, read one by one        *)
(***************************************************************************)
\* the most lines of a log
MaxLogLines == 3

\* the file every log of the model is: its stem, and the name of its directory
SessionFile == [stem |-> "abc123", parent |-> "-home-u-app"]

\* the lines of a log: the documents, a blank line, text that is no JSON, and
\* an entry between spaces
LogLines ==
    {d.text : d \in Documents} \cup {"", "{\"type\": \"user\"", " {} "}

\* the times datetime.now() gives
Clock == {[minute |-> 30, second |-> 0], [minute |-> 30, second |-> 1]}

InitLog ==
    \E f \in SeqsUpTo(LogLines, MaxLogLines) :
        /\ pc = "call" /\ call = "extract_turns"
        /\ config = DefaultConfig /\ text = "" /\ language = ""
        /\ items = <<>> /\ prefix = ""
        /\ tool_name = "" /\ parameters = <<>> /\ turn_number = 0
        /\ cleaned = "" /\ gerund = None /\ remaining = "" /\ subject = None
        /\ result = "" /\ raised = "" /\ again = ""
        /\ response = Raising("")
        /\ session = NoSession
        /\ turn_dict = <<>> /\ turn_index = 0 /\ total_turns = 0
        /\ file = f /\ line_num = 0
        /\ currentSlide = 0 /\ slides = <<>> /\ counter = "" /\ progress = <<0, 1>>
        /\ prevBtn = FALSE /\ nextBtn = FALSE
        /\ session_dict = <<>> /\ html_content = <<>>
        /\ max_pos = 0

\* what extract_turns leaves alone
besidesSession ==
    <<call, config, text, language, items, prefix, tool_name, parameters, turn_number,
      turn_dict, turn_index, total_turns, max_pos, file, browser, converting, locals,
      again, response>>

\* extract_turns up to its loop: the session of the file, with no turn yet
ExtractTurns ==
    /\ pc = "call" /\ call = "extract_turns"
    /\ \E project_path \in {get_project_path_from_session(file, 1)} :
          IF project_path.raised # ""
          THEN /\ raised' = project_path.raised
               /\ pc' = "done"
               /\ UNCHANGED session
          ELSE /\ session' = [session_id |-> SessionFile.stem,
                              project_path |-> IF project_path.value = None
                                               THEN decode_path(SessionFile.parent)
                                               ELSE project_path.value[1],
                              turns |-> <<>>]
               /\ pc' = "parse"
               /\ UNCHANGED raised
    /\ UNCHANGED <<besidesSession, line_num, result>>

\* one line of the file: parse_jsonl up to its yield or its continue, and the
\* body of the loop of extract_turns on the entry yielded
ParseJsonl ==
    /\ pc = "parse" /\ call = "extract_turns"
    /\ line_num < Len(file)
    /\ line_num' = line_num + 1
    /\ \E line \in {strip(file[line_num + 1])}, now \in Clock :
          \E entry \in {IF line = "" THEN None ELSE json_loads(line)} :
             IF entry = None
             THEN UNCHANGED <<pc, session, raised>>
             ELSE \E turn \in {from_jsonl_entry(entry[1], now)} :
                     IF turn.raised # ""
                     THEN /\ raised' = turn.raised
                          /\ pc' = "done"
                          /\ UNCHANGED session
                     ELSE IF turn.value = None
                     THEN UNCHANGED <<pc, session, raised>>
                     ELSE /\ session' = [session EXCEPT !.turns = Append(@, turn.value[1])]
                          /\ UNCHANGED <<pc, raised>>
    /\ UNCHANGED <<besidesSession, result>>

\* the end of the file: extract_turns returns the session
ReturnSession ==
    /\ pc = "parse" /\ call = "extract_turns"
    /\ line_num = Len(file)
    /\ result' = session
    /\ pc' = "done"
    /\ UNCHANGED <<besidesSession, session, line_num, raised>>

NextLog == ExtractTurns \/ ParseJsonl \/ ReturnSession
SpecLog == InitLog /\ [][NextLog]_vars

(***************************************************************************)
(* format_tool_use(tool_name, parameters) on values about the limits       *)
(***************************************************************************)
\* the most characters of a parameter value
MaxValueChars == 52

\* a command line longer than every limit
LongValue == "git log --oneline --graph --decorate --all -- src/scripts/titles.py"

\* URLs longer than UrlMax: with a path, with another scheme, with a scheme in
\* upper case, and with a query and no path
LongUrls ==
    {"https://example.com/a/very/long/path/to/some/page.html",
     "http://docs.example.org/guide/getting-started/install",
     "ftp://files.example.com/pub/releases/v1.2.3/archive.tar.gz",
     "HTTPS://EXAMPLE.COM/a/very/long/path/to/some/page.html",
     "https://example.com?q=session+slides+generator&lang=en"}

ToolValues == {Upto(LongValue, n) : n \in 0..MaxValueChars} \cup LongUrls \cup {"https://example.com/a"}

LimitedTools == {"Bash", "run", "Grep", "rg", "Task", "spawn", "WebFetch", "curl"}
LimitedKeys == {"command", "cmd", "pattern", "query", "description", "prompt", "url"}

InitTool ==
    \E tool \in LimitedTools, key \in LimitedKeys, v \in ToolValues :
        Enter("format_tool_use", DefaultConfig, "", "", <<>>, "", tool, key :> Some(v), 0)

NextTool == FormatToolUse
SpecTool == InitTool /\ [][NextTool]_vars

(***************************************************************************)
(* main(): session_to_dict and generate_html on the session extract_turns  *)
(* returned                                                                *)
(***************************************************************************)
\* the most turns of the session
MaxDeckTurns == 3

\* a prompt longer than prompt_max_chars + 3: a pasted error, the request,
\* and a pasted trace
LongPrompt ==
    "Error: login failed\nplease fix the login bug\n"
    \o Repeat("at login (src/auth/login.py:42) ", 8) \o "at login (src/auth/login.py:42)"

\* user prompts, a tool result handed back, assistant turns with text, with
\* text and a tool use, and with a tool use alone, and a system entry
DeckTurns ==
    {[role |-> "user", content |-> StrContent("fix the login bug"), timestamp |-> At0(0)],
     [role |-> "user", content |-> StrContent(LongPrompt), timestamp |-> At0(1)],
     [role |-> "user", content |-> BlockContent(<<ToolResultBlock("ok")>>), timestamp |-> At0(7)],
     [role |-> "assistant", content |-> BlockContent(<<TextBlock("Sure.")>>),
      timestamp |-> At0(12)],
     [role |-> "assistant", timestamp |-> At0(5),
      content |-> BlockContent(<<TextBlock("Done."),
                                 ToolUseBlock("Read", [k \in {"file_path"} |-> "/a/b.py"])>>)],
     [role |-> "assistant", timestamp |-> At0(6),
      content |-> BlockContent(<<ToolUseBlock("Bash", [k \in {"command"} |-> "npm test"])>>)],
     [role |-> "system", content |-> StrContent(""), timestamp |-> At0(9)]}

DeckSessions ==
    {[session_id |-> "abc123", project_path |-> "/home/u/app", turns |-> ts] :
        ts \in SeqsUpTo(DeckTurns, MaxDeckTurns)}

InitDeck ==
    \E sess \in DeckSessions :
        EnterWith("main", DefaultConfig, "", "", <<>>, "", "", <<>>, 0, sess)

\* main, step 3: no turns is an error; else session_to_dict
MainSessionToDict ==
    /\ pc = "call" /\ call = "main"
    /\ IF Len(session.turns) = 0
       THEN /\ result' = 1
            /\ pc' = "done"
            /\ UNCHANGED session_dict
       ELSE /\ session_dict' = session_to_dict(session)
            /\ pc' = "html"
            /\ UNCHANGED result
    /\ UNCHANGED <<arguments, reading, browser, html_content, locals, raised, again, response>>

\* main, step 4: generate_html
MainGenerateHtml ==
    /\ pc = "html" /\ call = "main"
    /\ html_content' = generate_html(session_dict)
    /\ result' = 0
    /\ pc' = "done"
    /\ UNCHANGED <<arguments, reading, browser, session_dict, locals, raised, again, response>>

NextDeck == MainSessionToDict \/ MainGenerateHtml
SpecDeck == InitDeck /\ [][NextDeck]_vars

(***************************************************************************)
(* truncate_user_prompt, truncate_prose and truncate_terminal_output, and   *)
(* each call on its own result                                             *)
(***************************************************************************)
\* the greatest limit of a config
MaxLimit == 14

TwiceTexts ==
    {"", " fix it ", "Hello there. How are you today, my friend", "One. Two! Three? Four",
     "fix the login bug and the logout bug", "; \n:", "A. B? C! D.",
     "l1\nl2\nl3\nl4", "ok\nError: failed\nmore\nWarning\nend\n"}

TwiceConfigs ==
    {[DefaultConfig EXCEPT !.prompt_max_chars = n, !.prose_max_sentences = n,
                           !.terminal_max_lines = n, !.terminal_include_errors = e] :
        n \in (0 - 1)..MaxLimit, e \in BOOLEAN}

InitTwice ==
    \E fn \in {"truncate_user_prompt", "truncate_prose", "truncate_terminal_output"},
       s \in TwiceTexts, cfg \in TwiceConfigs :
        Enter(fn, cfg, s, "", <<>>, "", "", <<>>, 0)

\* truncate_user_prompt(result, config): the call on its own result
TruncateUserPromptAgain ==
    /\ pc = "done" /\ call = "truncate_user_prompt"
    /\ again' = truncate_user_prompt(result, config)
    /\ pc' = "again"
    /\ UNCHANGED <<arguments, reading, browser, converting, locals, result, raised, response>>

\* truncate_prose(result, config): the call on its own result
TruncateProseAgain ==
    /\ pc = "done" /\ call = "truncate_prose"
    /\ again' = truncate_prose(result, config)
    /\ pc' = "again"
    /\ UNCHANGED <<arguments, reading, browser, converting, locals, result, raised, response>>

\* truncate_terminal_output(result, config): the call on its own result
TruncateTerminalOutputAgain ==
    /\ pc = "done" /\ call = "truncate_terminal_output"
    /\ again' = truncate_terminal_output(result, config)
    /\ pc' = "again"
    /\ UNCHANGED <<arguments, reading, browser, converting, locals, result, raised, response>>

NextTwice ==
    \/ TruncateUserPrompt \/ TruncateUserPromptAgain
    \/ TruncateProse \/ TruncateProseAgain
    \/ TruncateTerminalOutput \/ TruncateTerminalOutputAgain
SpecTwice == InitTwice /\ [][NextTwice]_vars

(***************************************************************************)
(* find_sentence_boundary(text, max_pos)                                   *)
(***************************************************************************)
\* the most pad characters before a text
MaxShift == 2

\* texts with sentence ends, decimal points, clause breaks, spaces in the
\* first and in the second half, and a clause break 50 characters back
BoundaryTexts ==
    {"Hello there. How are you today, my friend",
     "Wait! Is it so? Yes.No",
     "it is ok, use version 1.2 of it now",
     "use 1.2.3 not 1.3",
     "a,b; c: d e",
     "fix theloginbugandthelogoutbug now",
     "abcdefghijklmnopqrstuvwxyz",
     "ab, " \o Repeat("0123456789", 6)}

InitBoundary ==
    \E t \in BoundaryTexts, shift \in 0..MaxShift :
        \E s \in {Repeat("x", shift) \o t} :
            \E m \in 1..(Len(s) - 1) :
                /\ pc = "call" /\ call = "find_sentence_boundary"
                /\ config = DefaultConfig /\ text = s /\ language = ""
                /\ items = <<>> /\ prefix = ""
                /\ tool_name = "" /\ parameters = <<>> /\ turn_number = 0
                /\ cleaned = "" /\ gerund = None /\ remaining = "" /\ subject = None
                /\ result = "" /\ raised = "" /\ again = ""
                /\ response = Raising("")
                /\ session = NoSession
                /\ turn_dict = <<>> /\ turn_index = 0 /\ total_turns = 0
                /\ file = <<>> /\ line_num = 0
                /\ currentSlide = 0 /\ slides = <<>> /\ counter = "" /\ progress = <<0, 1>>
                /\ prevBtn = FALSE /\ nextBtn = FALSE
                /\ session_dict = <<>> /\ html_content = <<>>
                /\ max_pos = m

FindSentenceBoundary ==
    /\ pc = "call" /\ call = "find_sentence_boundary"
    /\ Return(find_sentence_boundary(text, max_pos))

NextBoundary == FindSentenceBoundary
SpecBoundary == InitBoundary /\ [][NextBoundary]_vars

(***************************************************************************)
(* The navigation script of the generated document: showSlide, nextSlide,  *)
(* prevSlide and the keydown listener                                      *)
(***************************************************************************)
\* the most turn slides of a deck
MaxGroupedTurns == 13

\* len(slides) of generate_html: the title slide, one slide for each grouped
\* turn and, when there is one at least, the summary slide
DeckSizes == {1} \cup {1 + n + 1 : n \in 1..MaxGroupedTurns}

\* the keys pressed: the five the listener handles, and another one
Keys == {"ArrowRight", " ", "ArrowLeft", "Home", "End", "Escape"}

\* the document as generate_html writes it, before its script runs: the
\* title slide carries the class 'active', the counter shows 1 / total_slides,
\* no button is disabled
InitNavigation ==
    \E total_slides \in DeckSizes :
        /\ pc = "call" /\ call = "showSlide"
        /\ config = DefaultConfig /\ text = "" /\ language = ""
        /\ items = <<>> /\ prefix = ""
        /\ tool_name = "" /\ parameters = <<>> /\ turn_number = 0
        /\ cleaned = "" /\ gerund = None /\ remaining = "" /\ subject = None
        /\ result = "" /\ raised = "" /\ again = ""
        /\ response = Raising("")
        /\ session = NoSession
        /\ turn_dict = <<>> /\ turn_index = 0 /\ total_turns = 0
        /\ file = <<>> /\ line_num = 0
        /\ currentSlide = 0
        /\ slides = [i \in 1..total_slides |-> i = 1]
        /\ counter = "1 / " \o ToString(total_slides)
        /\ progress = <<0, 1>>
        /\ prevBtn = FALSE /\ nextBtn = FALSE
        /\ session_dict = <<>> /\ html_content = <<>>
        /\ max_pos = 0

\* const totalSlides = slides.length
totalSlides == Len(slides)

\* variant of showSlide's two if statements: the index is not capped above
cappedBelow(index, total) == IF index < 0 THEN 0 ELSE index

\* the two if statements of showSlide
clampIndex(index, total) ==
    With(IF index < 0 THEN 0 ELSE index, LAMBDA atLeastZero :
        IF atLeastZero >= total THEN total - 1 ELSE atLeastZero)

\* showSlide(index): slides[i] is the 'active' class of slide i - 1, progress
\* the width as the fraction (index + 1) / totalSlides, prevBtn and nextBtn
\* the disabled property of the buttons
showSlide(index0) ==
    \E index \in {clampIndex(index0, totalSlides)} :
        /\ slides' = [i \in 1..totalSlides |-> i - 1 = index]
        /\ currentSlide' = index
        /\ counter' = ToString(index + 1) \o " / " \o ToString(totalSlides)
        /\ progress' = <<index + 1, totalSlides>>
        /\ prevBtn' = (index = 0)
        /\ nextBtn' = (index = totalSlides - 1)

nextSlide == showSlide(currentSlide + 1)
prevSlide == showSlide(currentSlide - 1)

\* everything besides the document and the script's position
besidesBrowser == <<arguments, reading, converting, locals, result, raised, again, response>>

\* the script runs to its end: showSlide(0)
Initialize ==
    /\ pc = "call" /\ call = "showSlide"
    /\ showSlide(0)
    /\ pc' = "ready"
    /\ UNCHANGED besidesBrowser

\* a click on the next button: onclick="nextSlide()"
ClickNext ==
    /\ pc = "ready" /\ call = "showSlide"
    /\ nextSlide
    /\ UNCHANGED <<pc, besidesBrowser>>

\* a click on the previous button: onclick="prevSlide()"
ClickPrev ==
    /\ pc = "ready" /\ call = "showSlide"
    /\ prevSlide
    /\ UNCHANGED <<pc, besidesBrowser>>

\* the keydown listener
KeyDown ==
    /\ pc = "ready" /\ call = "showSlide"
    /\ \E key \in Keys :
        IF key = "ArrowRight" \/ key = " " THEN nextSlide
        ELSE IF key = "ArrowLeft" THEN prevSlide
        ELSE IF key = "Home" THEN showSlide(0)
        ELSE IF key = "End" THEN showSlide(totalSlides - 1)
        ELSE UNCHANGED browser
    /\ UNCHANGED <<pc, besidesBrowser>>

NextNavigation == Initialize \/ ClickNext \/ ClickPrev \/ KeyDown
SpecNavigation == InitNavigation /\ [][NextNavigation]_vars

(***************************************************************************)
(* Every call.                                                             *)
(***************************************************************************)
Init ==
    \/ InitTitle \/ InitPrompt \/ InitCode \/ InitCalls
    \/ InitTerminal \/ InitList \/ InitProse \/ InitContinued \/ InitOllama \/ InitSession \/ InitSlide
    \/ InitLog \/ InitTool \/ InitDeck \/ InitTwice
    \/ InitBoundary \/ InitNavigation

Next ==
    \/ GenerateTurnTitle
    \/ TruncateUserPrompt
    \/ TruncateProse
    \/ TruncateCodeBlock
    \/ TruncateCodeBlockAgain
    \/ TruncateTerminalOutput
    \/ TruncateList
    \/ FormatToolUse
    \/ GenerateContinuedTitle
    \/ GenerateContinuedTitleAgain
    \/ GenerateTitleOllama
    \/ SessionToDict
    \/ GenerateTurnSlide
    \/ ExtractTurns
    \/ ParseJsonl
    \/ ReturnSession
    \/ MainSessionToDict
    \/ MainGenerateHtml
    \/ TruncateUserPromptAgain
    \/ TruncateProseAgain
    \/ TruncateTerminalOutputAgain
    \/ FindSentenceBoundary
    \/ Initialize
    \/ ClickNext
    \/ ClickPrev
    \/ KeyDown

Spec == Init /\ [][Next]_vars

(***************************************************************************)
(* Properties of generate_turn_title (SpecTitle).                          *)
(***************************************************************************)
titled == pc = "done" /\ call = "generate_turn_title"

\* C1: generate_turn_title never raises and returns a non-empty string, for
\* every prompt (empty, whitespace-only, noise-only, punctuation-only,
\* stop-words-only, quoted whitespace) and every turn number.
C1_TitleNeverEmpty == titled => result # "" /\ raised = ""

\* a prompt that is a quoted blank gets the numbered fallback
C1_QuotedBlankTitled ==
    titled /\ text = "\" \"" /\ turn_number = 0 - 1 /\ result = "Turn -1"

\* C2: each of the five truncators and format_tool_use returns a string
\* without raising, for any input: empty strings and lists, any parameter
\* mapping (missing keys, null values), thresholds that are 0 or negative.
C2_NoCallRaises == pc = "done" => raised = ""

\* C3: when the cleaned prompt begins with a verb of ACTION_VERBS the title
\* starts with that verb's gerund, and when its first two words form a
\* two-word entry the title starts with the two-word entry's gerund instead.
C3_TitleStartsWithGerund ==
    titled /\ cleaned # "" =>
        \A ws \in {words(lower(cleaned))} :
            IF Len(ws) >= 2 /\ (ws[1] \o " " \o ws[2]) \in DOMAIN ACTION_VERBS
            THEN startswith(result, ACTION_VERBS[ws[1] \o " " \o ws[2]])
            ELSE Len(ws) >= 1 /\ ws[1] \in DOMAIN ACTION_VERBS
                    => startswith(result, ACTION_VERBS[ws[1]])

\* "clean up" is titled by its own gerund, not by that of "clean"
C3_TwoWordVerbTitled ==
    titled /\ text = "clean up old logs" /\ startswith(result, "Cleaning Up ")

\* C4: the title of "Update 'config.json' with new settings" at turn 6
\* contains "config.json" exactly as the prompt writes it.
C4_QuotedNameKept ==
    titled /\ text = "Update 'config.json' with new settings" /\ turn_number = 6
        => contains(result, "config.json")

\* C5: the documented titles: greeting and politeness removed, the gerund,
\* then the title-cased noun phrase with its domain noun.
C5_DocumentedTitles ==
    titled =>
        /\ text = "Hey Claude, can you create a login form?" => result = "Creating Login Form"
        /\ text = "Please fix the authentication bug" => result = "Fixing Authentication Bug"
        /\ text = "implement user profile feature"
              => result = "Implementing User Profile Feature"
        /\ text = "refactor the database module" => result = "Refactoring Database Module"
        /\ text = "deploy to production" => result = "Deploying To Production"

(***************************************************************************)
(* Properties of truncate_user_prompt (SpecPrompt).                        *)
(***************************************************************************)
prompted == pc = "done" /\ call = "truncate_user_prompt"

endsInEllipsis(s) == endswith(s, "...") \/ endswith(s, "..")

\* C6: when prompt_max_chars is not negative and the prompt without its
\* leading and trailing whitespace is longer than prompt_max_chars, the result
\* ends in "..." or ".." and is at most prompt_max_chars + 3 long.
C6_LongPromptCut ==
    prompted /\ config.prompt_max_chars >= 0 /\ Len(strip(text)) > config.prompt_max_chars
        => endsInEllipsis(result) /\ Len(result) <= config.prompt_max_chars + 3

\* a padded prompt over the limit, cut at a sentence end
C6_PaddedPromptCut ==
    /\ prompted /\ config.prompt_max_chars >= 0
    /\ Len(strip(text)) > config.prompt_max_chars
    /\ Len(text) > Len(strip(text))
    /\ endswith(result, "..") /\ ~endswith(result, "...")
    /\ Len(result) = config.prompt_max_chars + 2

\* C6 as stated: every prompt longer than prompt_max_chars, whitespace counted
C6_AnyLongPromptCut ==
    prompted /\ Len(text) > config.prompt_max_chars
        => endsInEllipsis(result) /\ Len(result) <= config.prompt_max_chars + 3

\* C7: a prompt no longer than prompt_max_chars comes back with its leading
\* and trailing whitespace removed and nothing added.
C7_ShortPromptStripped ==
    prompted /\ Len(text) <= config.prompt_max_chars => result = strip(text)

\* a padded prompt within the limit came back stripped
C7_PaddedPromptStripped ==
    /\ prompted /\ Len(text) <= config.prompt_max_chars
    /\ text # strip(text) /\ strip(text) # "" /\ result = strip(text)

(***************************************************************************)
(* Properties of truncate_code_block (SpecCode).                           *)
(***************************************************************************)
blocked == pc \in {"done", "again"} /\ call = "truncate_code_block"

\* the lines truncate_code_block counts in a code string
linesOf(code) == splitOn(rstrip(code), "\n")

C9_MediumBand ==
    \A ls \in {linesOf(text)}, style \in {get_comment_style(language, config)} :
        /\ blocked
        /\ config.code_head_lines >= 0 /\ config.code_tail_lines >= 0
        /\ config.code_short_threshold < Len(ls) /\ Len(ls) <= config.code_long_threshold
        => result =
            IF Len(ls) - config.code_head_lines - config.code_tail_lines <= 0
            THEN rstrip(text)
            ELSE join(SubSeq(ls, 1, config.code_head_lines), "\n") \o "\n"
                 \o style[1] \o " ... ("
                 \o ToString(Len(ls) - config.code_head_lines - config.code_tail_lines)
                 \o " lines omitted)" \o style[2] \o "\n"
                 \o join(SubSeq(ls, Len(ls) - config.code_tail_lines + 1, Len(ls)), "\n")

\* the delimiters of a comment in the languages tried
delimitersOf(lang) ==
    IF lang = "python" THEN <<"#", "">>
    ELSE IF lang = "html" THEN <<"<!--", " -->">>
    ELSE IF lang = "css" THEN <<"/*", " */">>
    ELSE <<"//", "">>

\* the shape of a summary of code with the lines ls in language lang
isSummary(out, ls, lang) ==
    \A kept \in {SubSeq(ls, 1, Min(3, Len(ls)))} :
    \A got \in {splitOn(out, "\n")} :
        /\ Len(got) = Len(kept) + 2
        /\ SubSeq(got, 1, Len(kept)) = kept
        /\ got[Len(kept) + 1] = ""
        /\ startswith(got[Len(got)], delimitersOf(lang)[1] \o " ")
        /\ endswith(got[Len(got)], delimitersOf(lang)[2])
        /\ contains(got[Len(got)], "[" \o ToString(Len(ls)) \o " lines")
        /\ contains(got[Len(got)], "truncated")

\* C10: code with more than code_long_threshold lines, and more than
\* code_short_threshold lines, comes back as its first 3 lines, a blank line,
\* and one comment line in the language's delimiters with the line count and
\* the word "truncated".
C10_LongCodeSummarised ==
    /\ blocked
    /\ Len(linesOf(text)) > config.code_long_threshold
    /\ Len(linesOf(text)) > config.code_short_threshold
    => isSummary(result, linesOf(text), language)

\* code of exactly code_long_threshold + 1 lines summarised in HTML comments
C10_OneOverLongSummarised ==
    /\ blocked /\ language = "html"
    /\ Len(linesOf(text)) = config.code_long_threshold + 1
    /\ Len(linesOf(text)) > 3
    /\ isSummary(result, linesOf(text), language)

\* C10 as stated: whatever code_short_threshold is
C10_AnyLongCodeSummarised ==
    blocked /\ Len(linesOf(text)) > config.code_long_threshold
        => isSummary(result, linesOf(text), language)

\* C11: code of at most code_short_threshold lines (counted after its trailing
\* whitespace is removed) is returned with only that trailing whitespace
\* removed, whatever the language.
C11_ShortCodeTrimmed ==
    blocked /\ Len(linesOf(text)) <= config.code_short_threshold => result = rstrip(text)

\* short code that ends in a newline, returned without it
C11_TrailingNewlineTrimmed ==
    /\ blocked /\ language = "html"
    /\ Len(linesOf(text)) = config.code_short_threshold
    /\ text = rstrip(text) \o "\n" /\ Len(linesOf(text)) > 1
    /\ result = rstrip(text)

(***************************************************************************)
(* Properties of truncate_terminal_output (SpecTerminal).                  *)
(***************************************************************************)
terminated == pc = "done" /\ call = "truncate_terminal_output"

\* the positions after the first n lines whose line is classified as an error
errorPositions(ls, n) == {i \in (n + 1)..Len(ls) : is_error_line(ls[i])}

\* the line that stands for the lines left out: rest lines remain, errs of them errors
indicatorLine(rest, errs) ==
    IF errs > 0 THEN "... (" \o ToString(rest - errs) \o " lines omitted)"
    ELSE "... (" \o ToString(rest) \o " more lines)"

\* C12: with terminal_include_errors, an output of more than terminal_max_lines
\* lines becomes its first terminal_max_lines lines, one indicator line, and then
\* every remaining error line in its original order, duplicates included.
C12_ErrorLinesKept ==
    \A ls \in {splitOn(rstrip(text), "\n")}, n \in {config.terminal_max_lines} :
        terminated /\ config.terminal_include_errors /\ Len(ls) > n
        => \A out \in {splitOn(result, "\n")}, errs \in {errorPositions(ls, n)} :
              /\ Len(out) = n + 1 + Cardinality(errs)
              /\ SubSeq(out, 1, n) = SubSeq(ls, 1, n)
              /\ out[n + 1] = indicatorLine(Len(ls) - n, Cardinality(errs))
              /\ \A k \in 1..Cardinality(errs) : out[n + 1 + k] = ls[Nth(errs, k)]

\* an output whose remaining lines hold the same error line twice
C12_DuplicateErrorKept ==
    /\ terminated /\ config.terminal_include_errors /\ config.terminal_max_lines = 1
    /\ text = "ok\nError: boom\ndone\nError: boom"
    /\ result = "ok\n... (1 lines omitted)\nError: boom\nError: boom"

(***************************************************************************)
(* Properties of truncate_list (SpecList).                                 *)
(***************************************************************************)
listed == pc = "done" /\ call = "truncate_list"

\* the lines that show the first n of xs and count the others
shownLines(xs, n, pre) ==
    [i \in 1..(n + 1) |->
        IF i <= n THEN pre \o xs[i] ELSE pre \o "...and " \o ToString(Len(xs) - n) \o " more"]

\* C13: truncate_list returns "" for an empty list, every item prefixed and
\* one per line for a list of at most list_max_items items, and otherwise
\* exactly the first list_max_items items prefixed and then exactly one line
\* "{prefix}...and {N} more", N the number of items left out.
C13_ListShown ==
    listed =>
        result = IF Len(items) = 0 THEN ""
                 ELSE IF Len(items) <= config.list_max_items
                      THEN join([i \in 1..Len(items) |-> prefix \o items[i]], "\n")
                      ELSE join(shownLines(items, config.list_max_items, prefix), "\n")

\* the same for a list_max_items of 1 or more
C13_ListShownFromOne == config.list_max_items >= 1 => C13_ListShown

(***************************************************************************)
(* Properties of truncate_prose (SpecProse).                               *)
(***************************************************************************)
prosed == pc = "done" /\ call = "truncate_prose"

\* the first n of the sentences, joined by one space
keptProse(sentences, n) == join(SubSeq(sentences, 1, n), " ")

\* C14: prose of at most prose_max_sentences sentences is returned with the
\* whitespace around it removed; other prose becomes its first
\* prose_max_sentences sentences joined by one space, followed by ".." when
\* that kept text ends in ".", "!" or "?" and by "..." otherwise.
C14_ProseKeptOrCut ==
    \A sentences \in {split_sentences(text)} :
        prosed /\ config.prose_max_sentences >= 0
        => IF Len(sentences) <= config.prose_max_sentences
           THEN result = strip(text)
           ELSE \A kept \in {keptProse(sentences, config.prose_max_sentences)} :
                    result = kept \o (IF kept # "" /\ At(kept, Len(kept) - 1) \in {".", "!", "?"}
                                      THEN ".." ELSE "...")

\* padded prose of more sentences than are kept, cut after a sentence end
C14_PaddedProseCut ==
    /\ prosed /\ text # strip(text) /\ config.prose_max_sentences = 2
    /\ Len(split_sentences(text)) = 3
    /\ result = "Wait... What?!.."

\* C14 as stated: prose of at most prose_max_sentences sentences is returned unchanged
C14_ShortProseUnchanged ==
    prosed /\ Len(split_sentences(text)) <= config.prose_max_sentences => result = text

(***************************************************************************)
(* More properties of generate_turn_title (SpecTitle).                     *)
(***************************************************************************)
\* C15: for every turn number n, the title of a prompt that is empty or only
\* whitespace is exactly "Turn n".
C15_BlankPromptNumbered ==
    titled /\ (\A i \in 0..(Len(text) - 1) : At(text, i) \in Whitespace)
    => result = "Turn " \o ToString(turn_number)

\* a prompt of a tab and a newline, titled at a negative turn number
C15_WhitespacePromptNumbered ==
    /\ titled /\ text = "\t\n" /\ turn_number < 0
    /\ result = "Turn -1"

(***************************************************************************)
(* Properties of generate_continued_title (SpecContinued).                 *)
(***************************************************************************)
continued == pc \in {"done", "again"} /\ call = "generate_continued_title"

\* the last n characters of s (all of s when it is shorter)
lastChars(s, n) == SubSeq(s, Max(1, Len(s) - n + 1), Len(s))

\* C16: generate_continued_title(base) is "(continued)" for an empty base,
\* base itself when base ends with "(continued)", and base + " (continued)"
\* otherwise; applied to its own result it returns that result.
C16_ContinuedOnce ==
    /\ continued =>
          result = IF text = "" THEN "(continued)"
                   ELSE IF lastChars(text, 11) = "(continued)" THEN text
                   ELSE text \o " (continued)"
    /\ continued /\ pc = "again" => again = result

\* a base title that gets the suffix, and keeps it as it is the second time
C16_SuffixNotDoubled ==
    /\ continued /\ pc = "again" /\ text = "Turn 5"
    /\ result = "Turn 5 (continued)" /\ again = result

\* C17: whatever the order of the greetings, politeness markers, filler words
\* and discourse markers a prompt opens with, the text _clean_prompt returns
\* begins with none of the COMMON_PREFIXES patterns.
C17_NoPrefixLeft ==
    titled =>
        \A i \in 1..Len(COMMON_PREFIXES) : ~reMatch(COMMON_PREFIXES[i], SubjectI(cleaned)).ok

(***************************************************************************)
(* Properties of generate_title_ollama (SpecOllama).                       *)
(***************************************************************************)
asked == pc = "done" /\ call = "generate_title_ollama"

\* C18: generate_title_ollama raises nothing whatever requests.post comes to;
\* what it returns is generate_turn_title(prompt, turn_number), or else a title
\* of 2 to 6 words answered with status 200.
C18_ModelTitleOrFallback ==
    asked =>
        /\ raised = ""
        /\ \/ result = generate_turn_title(text, turn_number)
           \/ /\ response.raises = "" /\ response.status_code = 200
              /\ 2 <= wordCount(result) /\ wordCount(result) <= 6

(***************************************************************************)
(* Properties of session_to_dict (SpecSession).                            *)
(***************************************************************************)
converted == pc = "done" /\ call = "session_to_dict"

\* the keys of a conversation turn
TurnKeys == {"number", "prompt", "response", "tools_used", "files_modified", "title"}

\* C20: the "turns" of session_to_dict(session) hold exactly one entry per user
\* message of the session, and every entry has the keys number, prompt,
\* response, tools_used, files_modified and title.
C20_OneEntryPerUserMessage ==
    converted =>
        /\ Len(result.turns) =
              Cardinality({i \in 1..Len(session.turns) : is_user_message(session.turns[i])})
        /\ \A i \in 1..Len(result.turns) : TurnKeys \subseteq DOMAIN result.turns[i]

(***************************************************************************)
(* Properties of generate_turn_slide (SpecSlide).                          *)
(***************************************************************************)
slid == pc = "done" /\ call = "generate_turn_slide"

\* markup and an entity start that only the texts of the turn hold, never
\* the template of the slide
SessionMarkup == {"<i>", "</i>", "&z"}

\* C19: every text of the turn (title, prompt, response prose and code, tool
\* names and descriptions, file paths and file actions) is HTML-escaped in the
\* slide: no "<", ">" or "&" of the turn reaches the slide as it is.
C19_TurnTextEscaped ==
    slid => \A markup \in SessionMarkup : ~contains(result, markup)

\* the same for turns whose file actions hold no markup
C19_EscapedButFileAction ==
    slid /\ (\A k \in 1..Len(getDefault(turn_dict, "files_modified", <<>>)) :
                \A markup \in SessionMarkup :
                    ~contains(getDefault(turn_dict["files_modified"][k].dict, "action", ""), markup))
    => \A markup \in SessionMarkup : ~contains(result, markup)

\* the lines of a log that are JSON objects, in their order
usable(line) ==
    /\ strip(line) # ""
    /\ json_loads(strip(line)) # None
    /\ json_loads(strip(line))[1].kind = "object"
wellFormed(f) == SelectSeq(f, usable)

\* what a well-formed line adds to the turns of the session: its role and its
\* content, or nothing
turnsOfLine(line) ==
    With(from_jsonl_entry(json_loads(strip(line))[1], CHOOSE now \in Clock : TRUE).value,
         LAMBDA turn : IF turn = None THEN <<>>
                       ELSE <<[role |-> turn[1].role, content |-> turn[1].content]>>)

RECURSIVE turnsOfLines(_, _)
turnsOfLines(f, i) ==
    IF i > Len(f) THEN <<>> ELSE turnsOfLine(f[i]) \o turnsOfLines(f, i + 1)

\* extract_turns has returned or raised
extracted == call = "extract_turns" /\ pc = "done"

\* C21: a line of the log that is no usable JSON object (invalid JSON, or JSON
\* that is no object) never aborts the parsing: extract_turns raises nothing
\* and returns the Session of the well-formed lines, in their order.
C21_MalformedLinesSkipped ==
    extracted =>
        /\ raised = ""
        /\ [i \in 1..Len(result.turns) |->
               [role |-> result.turns[i].role, content |-> result.turns[i].content]]
           = turnsOfLines(wellFormed(file), 1)

\* the same for logs whose every JSON line is an object: lines that are no
\* JSON, and blank lines, are skipped
C21_InvalidJsonSkipped ==
    (extracted /\ \A i \in 1..Len(file) :
                     strip(file[i]) = "" \/ json_loads(strip(file[i])) = None \/ usable(file[i]))
    =>  /\ raised = ""
        /\ [i \in 1..Len(result.turns) |->
               [role |-> result.turns[i].role, content |-> result.turns[i].content]]
           = turnsOfLines(wellFormed(file), 1)

\* format_tool_use has returned
formatted == call = "format_tool_use" /\ pc = "done" /\ raised = ""

\* the first non-empty value parameters holds under the keys, "" when none
firstValue(params, keys) ==
    With(SelectSeq(keys, LAMBDA k : k \in DOMAIN params /\ truthy(params[k])), LAMBDA ks :
        IF ks = <<>> THEN "" ELSE params[ks[1]][1])

\* value, cut to max characters that end in "..." when it is longer
cutTo(value, max) ==
    IF Len(value) > max THEN Upto(value, max - 3) \o "..." ELSE value

\* the host of a URL: what stands between "://" and the next "/", "?" or "#"
bareDomain(url) ==
    With(findStr(url, "://", 0), LAMBDA at :
    With(IF at < 0 THEN url ELSE From(url, at + 3), LAMBDA rest :
        Upto(rest, Least({i \in 0..Len(rest) :
                             i = Len(rest) \/ At(rest, i) \in {"/", "?", "#"}}))))

\* the description of a value shown after a label
described(label, shown, fallback) == IF shown = "" THEN fallback ELSE label \o shown

\* C22 (cut parameters): the command of a bash-family tool is shown in at most
\* 50 characters, a search pattern in at most 30 and a task description in at
\* most 40, a cut value ending in "..."; a shorter value is shown unchanged.
C22_CutParametersBounded ==
    formatted =>
        /\ lower(tool_name) \in {"bash", "run"} =>
              result = described("Running: ",
                                 cutTo(firstValue(parameters, <<"command", "cmd">>), CommandMax),
                                 "Running command")
        /\ lower(tool_name) \in {"grep", "rg"} =>
              result = described("Searching: ",
                                 cutTo(firstValue(parameters, <<"pattern", "query">>), PatternMax),
                                 "Searching")
        /\ lower(tool_name) \in {"task", "spawn"} =>
              result = described("Task: ",
                                 cutTo(firstValue(parameters, <<"description", "prompt">>),
                                       DescriptionMax),
                                 "Running task")

\* a command of 51 characters is shown as its first 47 and "..."
C22_LongCommandCut ==
    /\ formatted /\ tool_name = "Bash"
    /\ "command" \in DOMAIN parameters /\ Len(parameters["command"][1]) = CommandMax + 1
    /\ result = "Running: " \o Upto(LongValue, CommandCut) \o "..."

\* C22: the parameter format_tool_use shows is bounded: the cut parameters as
\* above, and a fetch URL longer than 40 characters is replaced by its bare
\* domain, a shorter one shown unchanged.
C22_ParameterBounded ==
    formatted =>
        /\ C22_CutParametersBounded
        /\ lower(tool_name) \in {"webfetch", "curl"} =>
              With(firstValue(parameters, <<"url">>), LAMBDA url :
                  result = described("Fetching: ",
                                     IF Len(url) > UrlMax THEN bareDomain(url) ELSE url,
                                     "Fetching URL"))

\* the same for http and https URLs in lower case that have a path
C22_HttpUrlWithPathBounded ==
    (/\ formatted /\ lower(tool_name) \in {"webfetch", "curl"}
     /\ With(firstValue(parameters, <<"url">>), LAMBDA url :
            Len(url) > UrlMax =>
                /\ startswith(url, "http://") \/ startswith(url, "https://")
                /\ contains(bareDomain(url) \o "/", "/")
                /\ startswith(From(url, findStr(url, "://", 0) + 3), bareDomain(url) \o "/")))
    => With(firstValue(parameters, <<"url">>), LAMBDA url :
          result = described("Fetching: ",
                             IF Len(url) > UrlMax THEN bareDomain(url) ELSE url,
                             "Fetching URL"))

\* main has returned 0: the document is generated
generated == call = "main" /\ pc = "done" /\ Len(session.turns) > 0

\* the text a slide shows as the user prompt, None when it shows none
PromptOpening == "<div class=\"user-prompt-text\">"
promptShown(slide) ==
    With(findStr(slide, PromptOpening, 0), LAMBDA at :
        IF at < 0 THEN None
        ELSE With(From(slide, at + Len(PromptOpening)), LAMBDA rest :
                Some(Upto(rest, findStr(rest, "</div>", 0)))))

\* the user messages of the session, in their order
userMessages == SelectSeq(session.turns, is_user_message)

\* C23: prompt_max_chars is a hard cap on the prompts displayed: every user
\* prompt a slide of the document shows has passed through
\* truncate_user_prompt, and so is at most prompt_max_chars + 3 characters
\* long.
C23_DisplayedPromptCapped ==
    generated =>
        \A i \in 1..Len(html_content.turn_slides) :
            \A shown \in {promptShown(html_content.turn_slides[i])} :
                shown # None =>
                    /\ Len(shown[1]) <= DefaultConfig.prompt_max_chars + 3
                    /\ shown[1] = html_escape(truncate_user_prompt(
                                      get_text_content(userMessages[i]), DefaultConfig))

\* the same for the sessions whose prompts are within prompt_max_chars
C23_ShortPromptDisplayed ==
    (generated /\ \A i \in 1..Len(userMessages) :
                     Len(get_text_content(userMessages[i])) <= DefaultConfig.prompt_max_chars)
    =>  \A i \in 1..Len(html_content.turn_slides) :
            \A shown \in {promptShown(html_content.turn_slides[i])} :
                shown # None =>
                    /\ Len(shown[1]) <= DefaultConfig.prompt_max_chars + 3
                    /\ shown[1] = html_escape(truncate_user_prompt(
                                      get_text_content(userMessages[i]), DefaultConfig))

\* the positions of the user messages in session.turns, in their order
userPositions ==
    SelectSeq([i \in 1..Len(session.turns) |-> i], LAMBDA i : is_user_message(session.turns[i]))

\* the positions of the turns that follow the k-th user message, up to the
\* next user message
followers(k) ==
    {i \in 1..Len(session.turns) :
        /\ i > userPositions[k]
        /\ k < Len(userPositions) => i < userPositions[k + 1]}

\* the session holds user messages and assistant turns only
plainSession ==
    \A i \in 1..Len(session.turns) :
        is_user_message(session.turns[i]) \/ session.turns[i].role = "assistant"

\* each slide_group is a user prompt with the text of an assistant turn that
\* followed it ("" when none did), and no turn of another role is labelled
\* 'assistant'
paired ==
    /\ \A i \in 1..Len(session_dict.turns) :
          session_dict.turns[i].role = "assistant" => session.turns[i].role = "assistant"
    /\ Len(html_content.grouped_turns) = Len(userPositions)
    /\ \A k \in 1..Len(html_content.grouped_turns) :
          \A slide_group \in {html_content.grouped_turns[k]} :
              /\ slide_group.prompt = get_text_content(session.turns[userPositions[k]])
              /\ \A answers \in {{i \in followers(k) : session.turns[i].role = "assistant"}} :
                    IF answers = {} THEN slide_group.response = ""
                    ELSE \E i \in answers : slide_group.response = get_text_content(session.turns[i])

\* C28: each slide shows a user prompt with its assistant response: the
\* response of a slide_group of _group_conversation_turns is the text of an
\* assistant turn that followed that prompt; an entry that is no assistant
\* turn (a tool result, a system entry) is never labelled 'assistant' and
\* never replaces or blanks the response; assistant turns before the first
\* user prompt are in no slide_group.
C28_PromptWithItsResponse == generated => paired

\* the same for sessions of user messages and assistant turns only
C28_PlainSessionPaired == generated /\ plainSession => paired

\* a prompt, its answer, and an assistant turn before the first prompt
C28_AnsweredPromptGrouped ==
    /\ generated /\ plainSession
    /\ Len(session.turns) = 3 /\ userPositions = <<2>>
    /\ html_content.grouped_turns[1].response = "Done."

\* a truncator has been applied to its own result
twice ==
    /\ call \in {"truncate_user_prompt", "truncate_prose", "truncate_terminal_output"}
    /\ pc = "again"

\* the result of the first application is within the limit of its config
withinLimit ==
    /\ call = "truncate_user_prompt" => Len(result) <= config.prompt_max_chars
    /\ call = "truncate_prose" => Len(split_sentences(result)) <= config.prose_max_sentences
    /\ call = "truncate_terminal_output" =>
          Len(splitOn(result, "\n")) <= config.terminal_max_lines

\* C24 (amended): truncate_user_prompt, truncate_prose and
\* truncate_terminal_output return their own result unchanged when that
\* result is within the limit of the config, and no step of a call changes
\* the config.
C24_StableWithinLimit ==
    /\ [](twice /\ withinLimit => again = result)
    /\ [][config' = config]_vars

\* a prompt that was cut at the end of a sentence, and stays as it is
C24_CutPromptStable ==
    /\ twice /\ call = "truncate_user_prompt"
    /\ result = "Hello there..." /\ Len(result) <= config.prompt_max_chars
    /\ again = result

\* C24 as stated: applying an operation to its own output returns that output
\* unchanged, for every input and config.
C24_EveryResultStable == twice => again = result

\* truncate_prose returns its own result unchanged when it keeps one sentence
\* or more
C24_ProseStable ==
    twice /\ call = "truncate_prose" /\ config.prose_max_sentences >= 1 => again = result

\* find_sentence_boundary has returned
bounded == call = "find_sentence_boundary" /\ pc = "done"

\* the positions before max_pos of a '.', '!' or '?' that is followed in text
\* by whitespace or by the end of text
sentenceEnds ==
    {i \in 0..(max_pos - 1) :
        /\ At(text, i) \in SentenceEnd
        /\ i + 1 = Len(text) \/ At(text, i + 1) \in Whitespace}

\* the positions of a ',', ';' or ':' followed by a space, within the 50
\* characters before max_pos
clauseEnds ==
    {i \in Max(0, max_pos - CommaWindow)..(max_pos - 1) :
        At(text, i) \in {",", ";", ":"} /\ i + 1 < Len(text) /\ At(text, i + 1) = " "}

\* the spaces before max_pos
spacesBefore == {i \in 0..(max_pos - 1) : At(text, i) = " "}

\* C25: find_sentence_boundary(text, max_pos) with 0 < max_pos < len(text)
\* returns the position after the last sentence end before max_pos (after the
\* terminator, or after the whitespace that follows it); else the position
\* after the nearest clause break of the 50 characters before max_pos; else
\* the last space before max_pos when it lies past max_pos/2; else max_pos.
\* The result is in 0..max_pos, and a terminator followed in text by a
\* non-space character is never the cut.
C25_BoundaryByPriority ==
    bounded =>
        /\ result \in 0..max_pos
        /\ IF sentenceEnds # {}
           THEN result \in {Greatest(sentenceEnds) + 1, Greatest(sentenceEnds) + 2}
           ELSE IF clauseEnds # {} THEN result = Greatest(clauseEnds) + 1
           ELSE IF spacesBefore # {} /\ 2 * Greatest(spacesBefore) > max_pos
           THEN result = Greatest(spacesBefore)
           ELSE result = max_pos

\* the result is in 0..max_pos
C25_BoundaryInRange == bounded => result \in 0..max_pos

\* the same priorities for the calls in which no terminator stands at
\* max_pos - 1 before a non-space character, and no clause break stands 50
\* characters before max_pos
C25_BoundaryAwayFromEdges ==
    (/\ bounded
     /\ ~(At(text, max_pos - 1) \in SentenceEnd /\ At(text, max_pos) \notin Whitespace)
     /\ max_pos - CommaWindow \notin clauseEnds)
    =>  IF sentenceEnds # {}
        THEN result \in {Greatest(sentenceEnds) + 1, Greatest(sentenceEnds) + 2}
        ELSE IF clauseEnds # {} THEN result = Greatest(clauseEnds) + 1
        ELSE IF spacesBefore # {} /\ 2 * Greatest(spacesBefore) > max_pos
        THEN result = Greatest(spacesBefore)
        ELSE result = max_pos

\* the text the path, feature-phrase and noun extractors of generate_turn_title read
target == IF truthy(gerund) THEN remaining ELSE cleaned

\* the result of the extractors in the order given, the first that is not empty
RECURSIVE firstNonEmpty(_, _)
firstNonEmpty(found, i) ==
    IF i >= Len(found) \/ truthy(found[i]) THEN found[i] ELSE firstNonEmpty(found, i + 1)

\* C26: the subject is the first non-empty result of the extractors quoted
\* string, file path, feature phrase, meaningful nouns, each applied to the
\* text remaining after the action verb (to the cleaned text without a verb).
C26_SubjectFromRemaining ==
    titled /\ cleaned # "" =>
        subject = firstNonEmpty(<<_extract_quoted_string(target), _extract_file_path(target),
                                  _extract_feature_phrase(target),
                                  _extract_meaningful_nouns(target, MaxNounWords)>>, 1)

\* C26 as the code has it: the quoted string is searched in the whole cleaned
\* text, the path, feature phrase and nouns in the remaining text; a quoted
\* string wins over a path, a path over a feature phrase, and the nouns are
\* used only when the three others return nothing.
C26_SubjectByPriority ==
    titled /\ cleaned # "" =>
        \A quoted \in {_extract_quoted_string(cleaned)}, path \in {_extract_file_path(target)},
           feature \in {_extract_feature_phrase(target)} :
            /\ truthy(quoted) => subject = quoted
            /\ ~truthy(quoted) /\ truthy(path) => subject = path
            /\ ~truthy(quoted) /\ ~truthy(path) /\ truthy(feature) => subject = feature
            /\ ~truthy(quoted) /\ ~truthy(path) /\ ~truthy(feature)
                    => subject = _extract_meaningful_nouns(target, MaxNounWords)

\* a text with a quoted string, a path and a feature phrase is titled by the quoted string
C26_QuotedWinsOverPath ==
    /\ titled /\ text = "notes on 'plan b' and src/a.py"
    /\ truthy(_extract_file_path(target)) /\ truthy(_extract_feature_phrase(target))
    /\ subject = Some("plan b") /\ result = "Plan B"

\* the prompt is made of stop-words only
stopWordsOnly ==
    \A ws \in {words(lower(text))} : Len(ws) > 0 /\ \A k \in 1..Len(ws) : ws[k] \in STOP_WORDS

\* C27: a non-empty prompt with neither an action verb nor a subject is
\* titled "Turn n"; so are the single non-word "asdfghjkl" and the prompts
\* made of stop-words only.
C27_UnparseableNumbered ==
    titled /\ strip(text) # "" =>
        /\ ~truthy(gerund) /\ ~truthy(subject) => result = fallbackTitle(turn_number)
        /\ text = "asdfghjkl" \/ stopWordsOnly => result = fallbackTitle(turn_number)

\* C27 as far as the code has it: no verb and no subject give the numbered title
C27_NeitherNumbered ==
    titled /\ strip(text) # "" /\ ~truthy(gerund) /\ ~truthy(subject)
        => result = fallbackTitle(turn_number)

\* "and or but" has neither verb nor subject and is titled by its number
C27_StopWordPromptNumbered ==
    /\ titled /\ text = "and or but" /\ turn_number = MaxTurn
    /\ ~truthy(gerund) /\ ~truthy(subject) /\ result = "Turn 6"

\* the number of lines of a text, as str.split('\n') counts them
lineCount(s) == Len(splitOn(s, "\n"))

\* C30: truncate_terminal_output with terminal_max_lines >= 0 returns at most
\* as many lines as the right-trimmed output has.
C30_NoMoreLinesThanInput ==
    pc = "done" /\ call = "truncate_terminal_output" /\ config.terminal_max_lines >= 0
        => lineCount(result) <= lineCount(rstrip(text))

\* C30 where no error line is kept: the first lines and the indicator are
\* no more than the lines of the output
C30_NoMoreLinesWithoutErrors ==
    /\ pc = "done" /\ call = "truncate_terminal_output" /\ config.terminal_max_lines >= 0
    /\ ~config.terminal_include_errors
    => lineCount(result) <= lineCount(rstrip(text))

(***************************************************************************)
(* Properties of the navigation script (SpecNavigation).                   *)
(***************************************************************************)
\* the script has run to its end and handles events
ready == pc = "ready" /\ call = "showSlide"

\* the indexes of the slides that carry the class 'active'
activeSlides == {i - 1 : i \in {k \in 1..totalSlides : slides[k]}}

\* C29: after any sequence of nextSlide, prevSlide, Home and End on a deck
\* of one slide or more, currentSlide is within 0..totalSlides-1, the slide
\* at currentSlide is the only active one, the counter shows
\* currentSlide+1 / totalSlides, the previous button is disabled exactly on
\* the first slide and the next button exactly on the last; nextSlide on the
\* last slide and prevSlide on the first change nothing.
C29_NavigationKeepsDeckConsistent ==
    /\ [](ready =>
            /\ totalSlides >= 1
            /\ currentSlide \in 0..(totalSlides - 1)
            /\ activeSlides = {currentSlide}
            /\ counter = ToString(currentSlide + 1) \o " / " \o ToString(totalSlides)
            /\ prevBtn = (currentSlide = 0)
            /\ nextBtn = (currentSlide = totalSlides - 1))
    /\ [][ready /\ nextSlide /\ currentSlide = totalSlides - 1 => UNCHANGED browser]_vars
    /\ [][ready /\ prevSlide /\ currentSlide = 0 => UNCHANGED browser]_vars

\* the last slide of a deck of four, reached from the first
C29_LastSlideShown ==
    /\ ready /\ totalSlides = 4 /\ currentSlide = 3
    /\ slides = <<FALSE, FALSE, FALSE, TRUE>> /\ counter = "4 / 4"
    /\ nextBtn /\ ~prevBtn
=============================================================================
